---- MODULE Spec2Model ----
(***************************************************************************)
(* Provably-fair verification engine and RNG fairness analyser of the      *)
(* pivplatform repository.                                                 *)
(*                                                                         *)
(* Strings are tuples of character codes (JavaScript charCodeAt values),   *)
(* so that template literals, toLowerCase, length and the character-wise   *)
(* comparison of timingSafeEqual are modelled by what they do.             *)
(* The digest functions are node's crypto primitives; a digest is modelled *)
(* as a collision-free hex encoding of (primitive, key, data) that has the *)
(* primitive's digest length (32 or 64 bytes).                             *)
(***************************************************************************)
EXTENDS Integers, Sequences, FiniteSets, TLC

\* pc, call, ret: the call in progress of the verification and analysis
\* libraries and what it returned; arrays: the sample and timestamp arrays the
\* caller of that call holds; schemes: the scheme registry; engine: the
\* JavaScript engine the process runs on; earlier: a call that returned before;
\* sessions, now: the session tracker's map and the wall clock;
\* evidence, transactions, requests: the evidence table, the transactions
\* submitted to the chains and the anchor requests in flight.
VARIABLES pc, call, ret, arrays, schemes, engine, earlier, sessions, now,
          evidence, transactions, requests

runtimeVars == <<schemes, engine, earlier>>

trackerVars == <<sessions, now>>

anchorVars == <<evidence, transactions, requests>>

vars == <<pc, call, ret, arrays, runtimeVars, trackerVars, anchorVars>>

(***************************************************************************)
(* JavaScript values                                                       *)
(***************************************************************************)

\* An absent (undefined) string argument; no string holds a negative code.
UndefinedStr == <<-1>>

\* An absent (undefined) numeric argument; nonce and cursor are non-negative.
UndefinedNum == -1

\* JavaScript truthiness of an optional string: undefined and '' are falsy.
Truthy(s) == s # UndefinedStr /\ s # <<>>

\* `s || ''`
OrEmpty(s) == IF Truthy(s) THEN s ELSE <<>>

\* String.prototype.toLowerCase on the ASCII range: 'A'..'Z' -> 'a'..'z'.
toLowerCase(s) == [i \in 1..Len(s) |-> IF s[i] \in 65..90 THEN s[i] + 32 ELSE s[i]]

\* String.prototype.toUpperCase, used to build the callers' inputs.
toUpperCase(s) == [i \in 1..Len(s) |-> IF s[i] \in 97..122 THEN s[i] - 32 ELSE s[i]]

\* The decimal rendering of a non-negative integer in a template literal.
RECURSIVE NumToString(_)
NumToString(n) ==
    IF n < 10 THEN <<48 + n>> ELSE NumToString(n \div 10) \o <<48 + (n % 10)>>

\* ':' the delimiter of every scheme's message layout.
Colon == <<58>>

\* Bitwise xor and or of two character codes, bit by bit.
RECURSIVE BitXor(_, _)
BitXor(a, b) ==
    IF a = 0 /\ b = 0 THEN 0
    ELSE (((a % 2) + (b % 2)) % 2) + 2 * BitXor(a \div 2, b \div 2)

RECURSIVE BitOr(_, _)
BitOr(a, b) ==
    IF a = 0 /\ b = 0 THEN 0
    ELSE (IF (a % 2) = 1 \/ (b % 2) = 1 THEN 1 ELSE 0) + 2 * BitOr(a \div 2, b \div 2)

(***************************************************************************)
(* Cryptographic primitives (lib/utils/crypto.ts)                          *)
(***************************************************************************)

\* One lower-case hex digit of digest('hex').
HexDigit(v) == IF v < 10 THEN 48 + v ELSE 87 + v

\* digest('hex'): two lower-case hex digits per byte.
HexOfBytes(bytes) ==
    [j \in 1..(2 * Len(bytes)) |->
        IF (j % 2) = 1 THEN HexDigit(bytes[(j + 1) \div 2] \div 16)
        ELSE HexDigit(bytes[j \div 2] % 16)]

\* The digest of a primitive: nbytes bytes that determine (prim, key, data).
DigestBytes(prim, key, data, nbytes) ==
    LET body == <<prim, Len(key)>> \o key \o data
    IN  [i \in 1..nbytes |-> IF i <= Len(body) THEN body[i] ELSE 0]

sha256(data) == HexOfBytes(DigestBytes(1, <<>>, data, 32))

sha512(data) == HexOfBytes(DigestBytes(2, <<>>, data, 64))

hmacSha256(key, message) == HexOfBytes(DigestBytes(3, key, message, 32))

hmacSha512(key, message) == HexOfBytes(DigestBytes(4, key, message, 64))

\* The value of one hex digit as parseInt(_, 16) reads it.
HexValue(c) ==
    IF c \in 48..57 THEN c - 48
    ELSE IF c \in 97..102 THEN c - 87
    ELSE c - 55

\* hash.slice(0, k)
Slice0(s, k) == SubSeq(s, 1, IF k < Len(s) THEN k ELSE Len(s))

\* parseInt(hex, 16) / 256^bytesToUse, kept exact: the big-endian bytes of the
\* numerator (hex read as a number, so right-aligned), which are the base-256
\* digits of the float after the point.
ByteFraction(hex, bytesToUse) ==
    LET pad == 2 * bytesToUse - Len(hex)
        digit(j) == IF j > pad THEN HexValue(hex[j - pad]) ELSE 0
    IN  [i \in 1..bytesToUse |-> 16 * digit(2 * i - 1) + digit(2 * i)]

\* The significant bits of a number (a double).
MantissaBits == 53

\* A number in [0, 1]: its whole part and the base-256 digits after the point.
Float(whole, bytes) == [whole |-> whole, fraction |-> bytes]

\* The integer parseInt(hex, 16) returns, as a fraction of 256^bytesToUse: the
\* exact integer rounded to the nearest number of 53 significant bits, ties to
\* the even one.  The division by a power of two that follows is exact.
RoundToDouble(bytes) ==
    LET width == 8 * Len(bytes)
        bit(i) == (bytes[(i - 1) \div 8 + 1] \div 2^(7 - ((i - 1) % 8))) % 2
        ones == {i \in 1..width : bit(i) = 1}
        lead == IF ones = {} THEN width + 1 ELSE CHOOSE i \in ones : \A j \in ones : i <= j
        last == lead + MantissaBits - 1
        roundUp == /\ last < width
                   /\ bit(last + 1) = 1
                   /\ \/ \E i \in (last + 2)..width : bit(i) = 1
                      \/ bit(last) = 1
        zeros == {i \in 1..last : bit(i) = 0}
        carry == IF zeros = {} THEN 0 ELSE CHOOSE i \in zeros : \A j \in zeros : j <= i
        rounded(i) == IF last >= width THEN bit(i)
                      ELSE IF ~roundUp THEN (IF i <= last THEN bit(i) ELSE 0)
                      ELSE IF i < carry THEN bit(i)
                      ELSE IF i = carry THEN 1
                      ELSE 0
        byte(k) == LET b(j) == rounded(8 * (k - 1) + j)
                   IN  128 * b(1) + 64 * b(2) + 32 * b(3) + 16 * b(4)
                       + 8 * b(5) + 4 * b(6) + 2 * b(7) + b(8)
    IN  Float(IF last < width /\ roundUp /\ carry = 0 THEN 1 ELSE 0,
              [k \in 1..Len(bytes) |-> byte(k)])

hashToFloat(hash, bytesToUse) ==
    LET hex == Slice0(hash, bytesToUse * 2)
    IN  RoundToDouble(ByteFraction(hex, bytesToUse))

\* The accumulator of timingSafeEqual over the characters lo..hi:
\* result |= a.charCodeAt(i) ^ b.charCodeAt(i), the range halved at each step.
RECURSIVE XorAccumulate(_, _, _, _)
XorAccumulate(a, b, lo, hi) ==
    IF lo > hi THEN 0
    ELSE IF lo = hi THEN BitXor(a[lo], b[lo])
    ELSE LET mid == (lo + hi) \div 2
         IN  BitOr(XorAccumulate(a, b, lo, mid), XorAccumulate(a, b, mid + 1, hi))

\* Variant of timingSafeEqual that compares the first character only.
timingSafeEqualOnFirstCharacter(a, b) ==
    IF Len(a) # Len(b) THEN FALSE
    ELSE XorAccumulate(a, b, 1, IF Len(a) > 1 THEN 1 ELSE Len(a)) = 0

timingSafeEqual(a, b) ==
    IF Len(a) # Len(b) THEN FALSE
    ELSE XorAccumulate(a, b, 1, Len(a)) = 0

(***************************************************************************)
(* Verification schemes (lib/verification/schemes)                         *)
(* A call either returns a value or throws.                                *)
(***************************************************************************)

Return(v) == [threw |-> FALSE, value |-> v]

Throw(e) == [threw |-> TRUE, error |-> e]

SeedRequired == "Server seed is required for hash computation"

\* A generic scheme that ignored the algorithm, for comparison.
genericComputeHashSha256Only(input) ==
    LET message == input.clientSeed \o Colon \o NumToString(input.nonce)
    IN  IF ~Truthy(input.serverSeed) THEN Throw(SeedRequired)
        ELSE Return(hmacSha256(input.serverSeed, message))

\* genericScheme.computeHash: HMAC(serverSeed, clientSeed:nonce)
genericComputeHash(input) ==
    LET algorithm == IF input.algorithm = "undefined" THEN "sha256"
                     ELSE input.algorithm
        message == input.clientSeed \o Colon \o NumToString(input.nonce)
    IN  IF ~Truthy(input.serverSeed) THEN Throw(SeedRequired)
        ELSE IF algorithm = "sha256"
             THEN Return(hmacSha256(input.serverSeed, message))
             ELSE Return(hmacSha512(input.serverSeed, message))

\* A stake scheme that left the cursor out of its message, for comparison.
stakeComputeHashNoCursor(input) ==
    LET message == input.clientSeed \o Colon \o NumToString(input.nonce)
    IN  IF ~Truthy(input.serverSeed) THEN Throw(SeedRequired)
        ELSE Return(hmacSha256(input.serverSeed, message))

\* stakeScheme.computeHash: HMAC(serverSeed, clientSeed:nonce:cursor)
stakeComputeHash(input) ==
    LET cursor == IF input.cursor = UndefinedNum THEN 0 ELSE input.cursor
        message == input.clientSeed \o Colon \o NumToString(input.nonce)
                   \o Colon \o NumToString(cursor)
    IN  IF ~Truthy(input.serverSeed) THEN Throw(SeedRequired)
        ELSE Return(hmacSha256(input.serverSeed, message))

\* bcGameScheme.computeHash: HMAC(clientSeed, serverSeed:nonce)
bcGameComputeHash(input) ==
    LET message == input.serverSeed \o Colon \o NumToString(input.nonce)
    IN  IF ~Truthy(input.serverSeed) THEN Throw(SeedRequired)
        ELSE Return(hmacSha256(input.clientSeed, message))

\* genericScheme.hashToFloat delegates to the primitive.
genericHashToFloat(hash, bytesToUse) == hashToFloat(hash, bytesToUse)

\* stakeScheme.hashToFloat: its own copy, dividing by 2^(8 * bytesToUse).
stakeHashToFloat(hash, bytesToUse) ==
    RoundToDouble(ByteFraction(Slice0(hash, bytesToUse * 2), bytesToUse))

\* bcGameScheme.hashToFloat: its own copy, dividing by 2^(8 * bytesToUse).
bcGameHashToFloat(hash, bytesToUse) ==
    RoundToDouble(ByteFraction(Slice0(hash, bytesToUse * 2), bytesToUse))

\* A commitment check that compared the hex strings as published, without
\* lower-casing them, for comparison.
caseSensitiveVerifyServerSeedHash(serverSeed, expectedHash) ==
    timingSafeEqual(sha256(serverSeed), expectedHash)

\* <scheme>.verifyServerSeedHash: the three schemes hold the same body.
genericVerifyServerSeedHash(serverSeed, expectedHash) ==
    timingSafeEqual(toLowerCase(sha256(serverSeed)), toLowerCase(expectedHash))

stakeVerifyServerSeedHash(serverSeed, expectedHash) ==
    timingSafeEqual(toLowerCase(sha256(serverSeed)), toLowerCase(expectedHash))

bcGameVerifyServerSeedHash(serverSeed, expectedHash) ==
    timingSafeEqual(toLowerCase(sha256(serverSeed)), toLowerCase(expectedHash))

(***************************************************************************)
(* Verification engine (lib/verification/index.ts)                         *)
(***************************************************************************)

RegisteredSchemes == {"generic", "stake", "bc-game"}

\* schemes[scheme] || schemes.generic.  The registry is an object literal, so a
\* key of Object.prototype (such as "constructor") finds an inherited member,
\* which is truthy and is no scheme.
SchemeLookup(scheme) ==
    IF scheme \in RegisteredSchemes THEN scheme
    ELSE IF scheme \in {"constructor", "toString", "valueOf", "hasOwnProperty"}
         THEN "Object.prototype member"
         ELSE "generic"

SchemeComputeHash(impl, input) ==
    CASE impl = "generic" -> genericComputeHash(input)
      [] impl = "stake" -> stakeComputeHash(input)
      [] impl = "bc-game" -> bcGameComputeHash(input)
      [] OTHER -> Throw("TypeError: computeHash is not a function")

SchemeVerifyServerSeedHash(impl, serverSeed, expectedHash) ==
    CASE impl = "generic" -> Return(genericVerifyServerSeedHash(serverSeed, expectedHash))
      [] impl = "stake" -> Return(stakeVerifyServerSeedHash(serverSeed, expectedHash))
      [] impl = "bc-game" -> Return(bcGameVerifyServerSeedHash(serverSeed, expectedHash))
      [] OTHER -> Throw("TypeError: verifyServerSeedHash is not a function")

\* schemeImpl.hashToFloat(computedHash): bytesToUse takes its default, 4.
SchemeHashToFloat(impl, hash) ==
    CASE impl = "generic" -> genericHashToFloat(hash, 4)
      [] impl = "stake" -> stakeHashToFloat(hash, 4)
      [] OTHER -> bcGameHashToFloat(hash, 4)

\* verifyProvablyFair(input)
verifyProvablyFair(input) ==
    LET scheme == IF input.scheme = "undefined" THEN "generic" ELSE input.scheme
        algorithm == IF input.algorithm = "undefined" THEN "sha256"
                     ELSE input.algorithm
        schemeImpl == SchemeLookup(scheme)
        \* Step 1: the commitment, checked only for a truthy serverSeed
        checked == IF Truthy(input.serverSeed)
                   THEN SchemeVerifyServerSeedHash(schemeImpl, input.serverSeed,
                                                   input.serverSeedHash)
                   ELSE Return(TRUE)
        \* Step 2: the engine hands the scheme serverSeed || '', serverSeedHash,
        \* clientSeed, nonce and algorithm; the cursor is not among them
        computed == SchemeComputeHash(schemeImpl,
                        [serverSeed |-> OrEmpty(input.serverSeed),
                         serverSeedHash |-> input.serverSeedHash,
                         clientSeed |-> input.clientSeed,
                         nonce |-> input.nonce,
                         algorithm |-> algorithm,
                         cursor |-> UndefinedNum])
    IN  IF checked.threw THEN checked
        ELSE IF computed.threw THEN computed
        ELSE Return([isValid |-> checked.value,
                     computedHash |-> computed.value,
                     normalizedFloat |-> SchemeHashToFloat(schemeImpl, computed.value),
                     serverSeedValid |-> checked.value])

\* verifyServerSeedHash(serverSeed, expectedHash, algorithm = 'sha256'): both
\* branches of the conditional call sha256.
verifyServerSeedHash(serverSeed, expectedHash, algorithm) ==
    LET computed == IF algorithm = "sha256" THEN sha256(serverSeed)
                    ELSE sha256(serverSeed)
    IN  timingSafeEqual(toLowerCase(computed), toLowerCase(expectedHash))

\* computeProvablyFairHash(serverSeed, clientSeed, nonce, algorithm = 'sha256')
computeProvablyFairHash(serverSeed, clientSeed, nonce, algorithm) ==
    LET message == clientSeed \o Colon \o NumToString(nonce)
    IN  IF algorithm = "sha256" THEN hmacSha256(serverSeed, message)
        ELSE hmacSha512(serverSeed, message)

(***************************************************************************)
(* Callers of the verification engine                                      *)
(***************************************************************************)

\* Revealed server seeds "k" and "z", client seeds "c" and "m".
RevealedSeeds == {<<107>>, <<122>>}

ServerSeeds == RevealedSeeds \cup {UndefinedStr, <<>>}

ClientSeeds == {<<99>>, <<109>>}

MaxNonce == 1

\* A nonce of one digit, of two digits, and the first nonce.
Nonces == 0..MaxNonce \cup {12}

MaxCursor == 1

Cursors == {UndefinedNum} \cup 0..MaxCursor

Algorithms == {"sha256", "sha512"}

AlgorithmArgs == Algorithms \cup {"undefined"}

SchemeArgs == RegisteredSchemes \cup {"undefined", "unknown-casino", "constructor"}

\* Commitments a caller may hold: the plain hash of a seed under either
\* algorithm, as published in lower or in upper case, or nothing.
Commitments ==
    {sha256(s) : s \in RevealedSeeds} \cup {toUpperCase(sha256(s)) : s \in RevealedSeeds}
    \cup {sha512(s) : s \in RevealedSeeds} \cup {toUpperCase(sha512(s)) : s \in RevealedSeeds}
    \cup {<<>>}

VerificationInputs ==
    [scheme : SchemeArgs, serverSeed : ServerSeeds, serverSeedHash : Commitments,
     clientSeed : ClientSeeds, nonce : Nonces, algorithm : AlgorithmArgs,
     cursor : Cursors]

NoCall == [op |-> "none", input |-> <<>>]

NoRet == [threw |-> FALSE, value |-> "none"]

\* No array is held while no call is in progress.
NoArrays == [results |-> <<>>, timestamps |-> <<>>]

\* An engine left open: each sort may take any order the language allows.
AnyEngine == 0

NoEarlier == [call |-> NoCall, ret |-> NoRet]

\* No row of the evidence table.
NoEvidence == [status |-> "none"]

\* The state of the process once its modules are loaded: no call in progress,
\* the registry as written, an empty tracker and an empty evidence table.
Loaded ==
    /\ pc = "idle" /\ call = NoCall /\ ret = NoRet
    /\ arrays = NoArrays
    /\ schemes = RegisteredSchemes
    /\ earlier = NoEarlier
    /\ sessions = <<>>
    /\ now = 0
    /\ evidence = NoEvidence
    /\ transactions = <<>>
    /\ requests = <<>>

InitVerify == Loaded /\ engine = AnyEngine

\* verifyProvablyFair(input) is called and returns or throws; it reads the
\* registry and writes nothing.
Verify(input) ==
    /\ call' = [op |-> "verifyProvablyFair", input |-> input]
    /\ ret' = verifyProvablyFair(input)
    /\ pc' = "returned"
    /\ UNCHANGED <<arrays, runtimeVars, trackerVars, anchorVars>>

\* A caller verifies a bet.
VerifyCall ==
    /\ pc = "idle"
    /\ \E input \in VerificationInputs : Verify(input)

\* A caller checks a commitment alone.
VerifyServerSeedHashCall ==
    /\ pc = "idle"
    /\ \E serverSeed \in RevealedSeeds \cup {<<>>}, expectedHash \in Commitments,
          algorithm \in Algorithms :
          /\ call' = [op |-> "verifyServerSeedHash",
                      input |-> [serverSeed |-> serverSeed,
                                 serverSeedHash |-> expectedHash,
                                 algorithm |-> algorithm]]
          /\ ret' = Return(verifyServerSeedHash(serverSeed, expectedHash, algorithm))
    /\ pc' = "returned"
    /\ UNCHANGED <<arrays, runtimeVars, trackerVars, anchorVars>>

\* A caller (generateStakeResults, calculateBCGameDice, ...) asks a scheme for
\* its hash directly.
ComputeHashCall ==
    /\ pc = "idle"
    /\ \E input \in VerificationInputs :
          /\ input.scheme \in RegisteredSchemes
          /\ input.serverSeed # UndefinedStr
          /\ input.serverSeedHash = <<>>
          /\ call' = [op |-> "computeHash", input |-> input]
          /\ ret' = SchemeComputeHash(input.scheme, input)
    /\ pc' = "returned"
    /\ UNCHANGED <<arrays, runtimeVars, trackerVars, anchorVars>>

\* The caller takes the result; nothing of the call is kept.
Finish ==
    /\ pc = "returned"
    /\ pc' = "idle"
    /\ call' = NoCall
    /\ ret' = NoRet
    /\ arrays' = NoArrays
    /\ UNCHANGED <<runtimeVars, trackerVars, anchorVars>>

NextVerify == VerifyCall \/ VerifyServerSeedHashCall \/ ComputeHashCall \/ Finish

SpecVerify == InitVerify /\ [][NextVerify]_vars

(***************************************************************************)
(* Properties of the verification engine                                   *)
(***************************************************************************)

\* The documented wire formats: which field is the key and which fields, joined
\* by ':', are the message.
WireKey(scheme, serverSeed, clientSeed) ==
    IF scheme = "bc-game" THEN clientSeed ELSE serverSeed

WireMessage(scheme, serverSeed, clientSeed, nonce, cursor) ==
    CASE scheme = "stake" ->
            clientSeed \o <<58>> \o NumToString(nonce) \o <<58>> \o NumToString(cursor)
      [] scheme = "bc-game" -> serverSeed \o <<58>> \o NumToString(nonce)
      [] OTHER -> clientSeed \o <<58>> \o NumToString(nonce)

\* The digests of a key and message under the two keyed-hash primitives.
KeyedDigests(key, message) == {hmacSha256(key, message), hmacSha512(key, message)}

\* The primitive a digest was made with, read back from the digest.
DigestPrimitive(hex) ==
    LET tag == 16 * HexValue(hex[1]) + HexValue(hex[2])
    IN  CASE tag = 1 -> "SHA-256" [] tag = 2 -> "SHA-512"
          [] tag = 3 -> "HMAC-SHA256" [] tag = 4 -> "HMAC-SHA512"
          [] OTHER -> "none"

\* The plain hash of a seed under an algorithm.
PlainHash(algorithm, data) ==
    IF algorithm = "sha512" THEN sha512(data) ELSE sha256(data)

\* The algorithm a call selects: sha256 unless it names one.
Selected(algorithm) == IF algorithm = "undefined" THEN "sha256" ELSE algorithm

CursorOrZero(cursor) == IF cursor = UndefinedNum THEN 0 ELSE cursor

VerifyReturned == pc = "returned" /\ call.op = "verifyProvablyFair"

ComputeHashReturned == pc = "returned" /\ call.op = "computeHash"

\* C1 (as claimed): a verify call of a registered scheme without a serverSeed
\* (absent or '') raises no error and returns serverSeedValid = isValid = TRUE
\* with the scheme's formula evaluated on the empty seed as computedHash.
C1_NoSeedVerifies ==
    (VerifyReturned /\ call.input.scheme \in RegisteredSchemes
        /\ ~Truthy(call.input.serverSeed))
    => /\ ~ret.threw
       /\ ret.value.serverSeedValid
       /\ ret.value.isValid
       /\ ret.value.computedHash \in
             KeyedDigests(WireKey(call.input.scheme, <<>>, call.input.clientSeed),
                          WireMessage(call.input.scheme, <<>>, call.input.clientSeed,
                                      call.input.nonce, 0))

\* C2 (as claimed): for every scheme and algorithm the commitment check accepts
\* exactly when the plain hash of serverSeed under the selected algorithm
\* equals serverSeedHash, compared case-insensitively.
C2_CommitmentUsesSelectedAlgorithm ==
    /\ (VerifyReturned /\ ~ret.threw /\ Truthy(call.input.serverSeed))
       => (ret.value.serverSeedValid
           <=> toLowerCase(PlainHash(Selected(call.input.algorithm),
                                     call.input.serverSeed))
               = toLowerCase(call.input.serverSeedHash))
    /\ (pc = "returned" /\ call.op = "verifyServerSeedHash")
       => (ret.value
           <=> toLowerCase(PlainHash(call.input.algorithm, call.input.serverSeed))
               = toLowerCase(call.input.serverSeedHash))

\* C3: in every VerificationResult returned by verify, isValid equals
\* serverSeedValid, and is TRUE exactly when no serverSeed was supplied or the
\* scheme's commitment check of serverSeed against serverSeedHash passed,
\* whatever clientSeed, nonce and computed hash are.
C3_IsValidIsCommitment ==
    (VerifyReturned /\ ~ret.threw)
    => /\ ret.value.isValid = ret.value.serverSeedValid
       /\ ret.value.isValid
          <=> (\/ ~Truthy(call.input.serverSeed)
               \/ toLowerCase(sha256(call.input.serverSeed))
                  = toLowerCase(call.input.serverSeedHash))

\* C3 witness: a result whose commitment check failed, and so is not valid.
C3_Witness ==
    /\ VerifyReturned /\ ~ret.threw
    /\ Truthy(call.input.serverSeed)
    /\ call.input.serverSeedHash = sha256(<<122>>)
    /\ call.input.serverSeed = <<107>>
    /\ ~ret.value.isValid

C5_CursorReachesScheme ==
    (VerifyReturned /\ ~ret.threw /\ call.input.scheme = "stake")
    => ret.value.computedHash
         = hmacSha256(call.input.serverSeed,
                      WireMessage("stake", call.input.serverSeed,
                                  call.input.clientSeed, call.input.nonce,
                                  CursorOrZero(call.input.cursor)))

\* The digest a call produced, of a scheme's computeHash or of verify.
ProducedHash == IF call.op = "computeHash" THEN ret.value ELSE ret.value.computedHash

HashProduced ==
    /\ pc = "returned" /\ call.op \in {"computeHash", "verifyProvablyFair"}
    /\ ~ret.threw

\* C6 (as claimed): for every scheme the selected algorithm determines the
\* primitive and size of the digest: HMAC-SHA256 (64 hex characters) under
\* sha256, HMAC-SHA512 (128 hex characters) under sha512.
C6_AlgorithmSelectsPrimitive ==
    HashProduced
    => IF Selected(call.input.algorithm) = "sha256"
       THEN DigestPrimitive(ProducedHash) = "HMAC-SHA256" /\ Len(ProducedHash) = 64
       ELSE DigestPrimitive(ProducedHash) = "HMAC-SHA512" /\ Len(ProducedHash) = 128

\* C6 (amended): the selected algorithm determines the primitive and digest
\* size of the generic scheme (also when an unknown scheme name falls back to
\* it); the stake and bc-game schemes produce HMAC-SHA256 digests of 64 hex
\* characters under either algorithm.
C6_AlgorithmSelectsPrimitiveOfGeneric ==
    HashProduced
    => IF Selected(call.input.algorithm) = "sha512"
          /\ call.input.scheme \notin {"stake", "bc-game"}
       THEN DigestPrimitive(ProducedHash) = "HMAC-SHA512" /\ Len(ProducedHash) = 128
       ELSE DigestPrimitive(ProducedHash) = "HMAC-SHA256" /\ Len(ProducedHash) = 64

\* C6 witness: the generic scheme produced a digest under sha512.
C6_Witness ==
    /\ HashProduced
    /\ call.input.scheme = "generic"
    /\ call.input.algorithm = "sha512"
    /\ Len(ProducedHash) = 128

(***************************************************************************)
(* Numbers of the RNG analyser                                             *)
(*                                                                         *)
(* A JavaScript number of the analyser is held in fixed point with 20      *)
(* fraction bits: the integer x stands for x / 2^20.  Samples lie on the   *)
(* grid m / 1024, which doubles hold exactly.  Counts, sizes and           *)
(* timestamps stay integers.  NaN is a value of its own: every comparison  *)
(* with it is false and it is carried through arithmetic where the code    *)
(* can produce it.                                                         *)
(***************************************************************************)

Q == 2^20

QRoot == 2^10

NaN == -(2^30)

\* Infinity, the quotient of a non-zero number and zero; -Infinity is its
\* negative.
Infinity == 2^30 - 1

Abs(a) == IF a < 0 THEN -a ELSE a

Sgn(a) == IF a < 0 THEN -1 ELSE 1

Min(a, b) == IF a < b THEN a ELSE b

Max(a, b) == IF a > b THEN a ELSE b

\* a * b, rounded to the nearest 2^-20.
MulFix(a, b) ==
    LET x == Abs(a)
        y == Abs(b)
        xh == x \div QRoot
        xl == x % QRoot
        yh == y \div QRoot
        yl == y % QRoot
        cross == xh * yl + xl * yh + (xl * yl + QRoot \div 2) \div QRoot
    IN  Sgn(a) * Sgn(b) * (xh * yh + (cross + QRoot \div 2) \div QRoot)

\* The next 2 * steps fraction bits of r / b, for 0 <= r < b.
RECURSIVE LongDiv(_, _, _)
LongDiv(r, b, steps) ==
    IF steps = 0 THEN 0
    ELSE ((r * 4) \div b) * 4^(steps - 1) + LongDiv((r * 4) % b, b, steps - 1)

\* a / b of two integers (or of two fixed-point values), b # 0.
Ratio(a, b) ==
    LET x == Abs(a)
        y == Abs(b)
    IN  Sgn(a) * Sgn(b) * ((x \div y) * Q + LongDiv(x % y, y, 10))

DivFix(a, b) == Ratio(a, b)

\* floor(sqrt(n)) by bisection, lo^2 <= n < hi^2.
RECURSIVE ISqrt(_, _, _)
ISqrt(n, lo, hi) ==
    IF hi - lo <= 1 THEN lo
    ELSE LET mid == (lo + hi) \div 2
         IN  IF mid * mid <= n THEN ISqrt(n, mid, hi) ELSE ISqrt(n, lo, mid)

RECURSIVE SqrtNewton(_, _, _)
SqrtNewton(x, r, steps) ==
    IF steps = 0 THEN r ELSE SqrtNewton(x, (r + DivFix(x, r)) \div 2, steps - 1)

\* Math.sqrt of a non-negative value.
SqrtFix(x) ==
    IF x <= 0 THEN 0
    ELSE LET r0 == ISqrt(x, 0, 46341) * QRoot
         IN  SqrtNewton(x, IF r0 = 0 THEN 1 ELSE r0, 3)

RECURSIVE CbrtNewton(_, _, _)
CbrtNewton(x, r, steps) ==
    LET r2 == MulFix(r, r)
        nr == (2 * r + DivFix(x, r2)) \div 3
    IN  IF steps = 0 \/ r2 = 0 THEN r
        ELSE IF nr >= r THEN r
        ELSE CbrtNewton(x, nr, steps - 1)

\* Math.pow(x, 1 / 3) of a non-negative value: Newton's iteration downwards
\* from a start above the root.
CbrtFix(x) ==
    IF x <= 0 THEN 0 ELSE CbrtNewton(x, Min(Q + x \div 3, 13 * Q), 40)

\* exp(-k) for k = 0..14.
ExpNegTable ==
    <<1048576, 385750, 141909, 52206, 19205, 7065, 2599, 956, 352, 129, 48, 18,
      6, 2, 1>>

\* exp(-f) for 0 <= f < 1 by its Taylor series, Horner form, from term j down.
RECURSIVE ExpNegSeries(_, _, _)
ExpNegSeries(f, j, t) ==
    IF j = 0 THEN t ELSE ExpNegSeries(f, j - 1, Q - MulFix(DivFix(f, j * Q), t))

\* Math.exp(-y) for y >= 0.
ExpNeg(y) ==
    LET k == y \div Q
    IN  IF k >= 15 THEN 0
        ELSE MulFix(ExpNegTable[k + 1], ExpNegSeries(y % Q, 12, Q))

\* ln 2 and ln 10.
Ln2 == 726817

Ln10 == 2414435

\* The binary exponent e and mantissa m in [1, 2) of x = m * 2^e.
RECURSIVE Normalize(_, _)
Normalize(m, e) ==
    IF m >= 2 * Q THEN Normalize(m \div 2, e + 1)
    ELSE IF m < Q THEN Normalize(m * 2, e - 1)
    ELSE <<m, e>>

\* 1/1 + u2/3 + u2^2/5 + ..., Horner form.
RECURSIVE AtanhSeries(_, _, _)
AtanhSeries(u2, j, s) ==
    IF j < 1 THEN s ELSE AtanhSeries(u2, j - 2, MulFix(s, u2) + Q \div j)

\* Math.log of a positive value: ln(m * 2^e) = e ln 2 + 2 atanh((m-1)/(m+1)).
Ln(x) ==
    LET me == Normalize(x, 0)
        u == DivFix(me[1] - Q, me[1] + Q)
    IN  me[2] * Ln2 + 2 * MulFix(u, AtanhSeries(MulFix(u, u), 11, 0))

Log10(x) == DivFix(Ln(x), Ln10)

Log2(x) == DivFix(Ln(x), Ln2)

(***************************************************************************)
(* Statistical tests (statistical-tests.ts)                                *)
(***************************************************************************)

\* The coefficients of erf, in units of 2^-20.
ErfA1 == 267208

ErfA2 == -298316

ErfA3 == 1490460

ErfA4 == -1523740

ErfA5 == 1112964

ErfP == 343504

\* 1 / Math.sqrt(2)
InvSqrt2 == 741455

\* erf(x): the exponential underflows the grid from |x| = 4 on.
erf(x) ==
    LET sign == Sgn(x)
        a == Abs(x)
        t == DivFix(Q, Q + MulFix(ErfP, a))
        poly == MulFix(MulFix(MulFix(MulFix(MulFix(ErfA5, t) + ErfA4, t) + ErfA3, t)
                              + ErfA2, t) + ErfA1, t)
        y == Q - MulFix(poly, ExpNeg(MulFix(a, a)))
    IN  IF a >= 4 * Q THEN sign * Q ELSE sign * y

\* normalCDF(x) = 0.5 * (1 + erf(x / Math.sqrt(2)))
normalCDF(x) == (Q + erf(MulFix(x, InvSqrt2))) \div 2

\* chiSquareCDF(x, df): the quotient (1 - 2/(9 df)) / sqrt(2/(9 df)) is
\* subtracted from the cube root as a whole, as the expression is written.
chiSquareCDF(x, df) ==
    LET r == Ratio(2, 9 * df)
        z == CbrtFix(DivFix(x, df * Q)) - DivFix(Q - r, SqrtFix(r))
    IN  IF x <= 0 \/ df <= 0 THEN 0 ELSE normalCDF(z)

\* The sum of f[lo..hi], the range halved at each step.
RECURSIVE SumRange(_, _, _)
SumRange(f, lo, hi) ==
    IF lo > hi THEN 0
    ELSE IF lo = hi THEN f[lo]
    ELSE LET mid == (lo + hi) \div 2
         IN  SumRange(f, lo, mid) + SumRange(f, mid + 1, hi)

\* The number of indices of a sequence that satisfy a test.
CountIf(s, Test(_)) == Cardinality({i \in 1..Len(s) : Test(s[i])})

\* The largest element of a non-empty set of numbers.
MaxOf(S) == CHOOSE v \in S : \A w \in S : w <= v

\* The samples are integers m in 0..1023 standing for m / 1024.
Grid == 2^10

Sample(m) == m * (Q \div Grid)

\* Math.min(Math.floor(result * bins), bins - 1)
BinIndex(m, bins) == Min((m * bins) \div Grid, bins - 1)

TestResult(testName, statistic, pValue, passed) ==
    [testName |-> testName, statistic |-> statistic, pValue |-> pValue,
     passed |-> passed]

\* Variant of InsufficientResult that reports a pValue of 0.
InsufficientResultWithZeroPValue(testName, error) ==
    [testName |-> testName, statistic |-> 0, pValue |-> 0, passed |-> FALSE,
     error |-> error]

\* The result of a test that was given too little data: it carries an error
\* detail in place of the test's details.
InsufficientResult(testName, error) ==
    [testName |-> testName, statistic |-> 0, pValue |-> Q, passed |-> FALSE,
     error |-> error]

\* Variant of Exceeds that passes a test whose pValue is below the level.
FallsShort(pValue, level) == pValue # NaN /\ pValue < level

\* pValue > significanceLevel, false for a NaN pValue.
Exceeds(pValue, level) == pValue # NaN /\ pValue > level

\* chiSquareTest(results, bins, significanceLevel): with expected = n / bins,
\* sum (o - n/bins)^2 / (n/bins) = sum (bins o - n)^2 / (bins n).
chiSquareTest(results, bins, significanceLevel) ==
    LET n == Len(results)
        observed == [b \in 1..bins |->
                        CountIf(results, LAMBDA m : BinIndex(m, bins) = b - 1)]
        squares == [b \in 1..bins |-> (bins * observed[b] - n) * (bins * observed[b] - n)]
        chiSquare == Ratio(SumRange(squares, 1, bins), bins * n)
        pValue == Q - chiSquareCDF(chiSquare, bins - 1)
    IN  \* an empty batch expects 0 in every bin: each term is 0 / 0
        IF n = 0 THEN TestResult("Chi-Square Test", NaN, NaN, FALSE)
        ELSE TestResult("Chi-Square Test", chiSquare, pValue,
                        Exceeds(pValue, significanceLevel))

\* sorted[k] (0-based) of the samples in ascending order.
SortedAt(results, k) ==
    CHOOSE v \in {results[i] : i \in 1..Len(results)} :
        /\ CountIf(results, LAMBDA m : m < v) <= k
        /\ k < CountIf(results, LAMBDA m : m <= v)

\* runsTest(results, significanceLevel)
runsTest(results, significanceLevel) ==
    LET n == Len(results)
        median == SortedAt(results, n \div 2)
        binary == [i \in 1..n |-> IF results[i] >= median THEN 1 ELSE 0]
        runs == 1 + Cardinality({i \in 2..n : binary[i] # binary[i - 1]})
        n1 == Cardinality({i \in 1..n : binary[i] = 1})
        n0 == n - n1
        expectedRuns == Ratio(2 * n0 * n1, n) + Q
        variance == Ratio(2 * n0 * n1 * (2 * n0 * n1 - n), n * n * (n - 1))
        \* a zero variance (n0 = 0) goes with runs = expectedRuns = 1: 0 / 0
        zScore == IF variance = 0 THEN NaN
                  ELSE DivFix(runs * Q - expectedRuns, SqrtFix(variance))
        pValue == IF zScore = NaN THEN NaN ELSE 2 * (Q - normalCDF(Abs(zScore)))
    IN  IF n < 10
        THEN InsufficientResult("Runs Test",
                                "Insufficient data (need at least 10 samples)")
        ELSE TestResult("Runs Test", zScore, pValue,
                        Exceeds(pValue, significanceLevel))

\* A sequence built by a rule, held as an explicit tuple.
Tuple(f, n) == SubSeq(f, 1, n)

\* serialCorrelationTest(results, lag, significanceLevel).  A zero denominator
\* goes with a zero numerator: the correlation is 0 / 0.  The Fisher
\* transform of a correlation within 2^-10 of +-1 is beyond every z the CDF
\* resolves: the pValue is 0.
serialCorrelationTest(results, lag, significanceLevel) ==
    LET n == Len(results)
        k == n - lag
        mean1 == SumRange([i \in 1..k |-> Sample(results[i])], 1, k) \div k
        mean2 == SumRange([i \in 1..k |-> Sample(results[i + lag])], 1, k) \div k
        diff1 == Tuple([i \in 1..k |-> Sample(results[i]) - mean1], k)
        diff2 == Tuple([i \in 1..k |-> Sample(results[i + lag]) - mean2], k)
        numerator == SumRange([i \in 1..k |-> MulFix(diff1[i], diff2[i])], 1, k)
        denominator1 == SumRange([i \in 1..k |-> MulFix(diff1[i], diff1[i])], 1, k)
        denominator2 == SumRange([i \in 1..k |-> MulFix(diff2[i], diff2[i])], 1, k)
        correlation ==
            IF denominator1 = 0 \/ denominator2 = 0 THEN NaN
            ELSE DivFix(numerator,
                        MulFix(SqrtFix(denominator1), SqrtFix(denominator2)))
        zTransform == Ln(DivFix(Q + correlation, Q - correlation)) \div 2
        zScore == MulFix(zTransform, SqrtFix((k - 3) * Q))
        pValue == IF correlation = NaN THEN NaN
                  ELSE IF Q - Abs(correlation) <= Q \div Grid THEN 0
                  ELSE 2 * (Q - normalCDF(Abs(zScore)))
    IN  IF n < lag + 10
        THEN InsufficientResult("Serial Correlation Test",
                                "Insufficient data for given lag")
        ELSE TestResult("Serial Correlation Test", correlation, pValue,
                        Exceeds(pValue, significanceLevel))

\* frequencyTest(results, threshold, significanceLevel): the threshold is a
\* grid value.
frequencyTest(results, threshold, significanceLevel) ==
    LET n == Len(results)
        countAbove == CountIf(results, LAMBDA m : m >= threshold)
        \* |countAbove - n/2| - 0.5
        excess == Abs(2 * countAbove - n) * (Q \div 2) - Q \div 2
        zScore == DivFix(excess, SqrtFix(Ratio(n, 4)))
        pValue == 2 * (Q - normalCDF(zScore))
    IN  \* an empty batch: -0.5 / 0 is -Infinity, whose normalCDF is 0
        IF n = 0
        THEN TestResult("Frequency Test", -Infinity, 2 * Q,
                        Exceeds(2 * Q, significanceLevel))
        ELSE TestResult("Frequency Test", zScore, pValue,
                        Exceeds(pValue, significanceLevel))

\* Variant of GapScan that records the gaps of length zero as well.
RECURSIVE GapScanWithZeroGaps(_, _, _, _, _, _)
GapScanWithZeroGaps(results, lowerBound, upperBound, state, lo, hi) ==
    IF lo > hi THEN state
    ELSE IF lo = hi
         THEN IF results[lo] >= lowerBound /\ results[lo] < upperBound
              THEN <<Append(state[1], state[2]), 0>>
              ELSE <<state[1], state[2] + 1>>
    ELSE LET mid == (lo + hi) \div 2
             left == GapScanWithZeroGaps(results, lowerBound, upperBound, state, lo, mid)
         IN  IF left[2] < 0 THEN left
             ELSE GapScanWithZeroGaps(results, lowerBound, upperBound, left, mid + 1, hi)

\* The loop over results[lo..hi] that collects the gaps between hits of
\* [lowerBound, upperBound): state = <<gaps, currentGap>>.  The range is walked
\* left to right, halved at each step.
RECURSIVE GapScan(_, _, _, _, _, _)
GapScan(results, lowerBound, upperBound, state, lo, hi) ==
    IF lo > hi THEN state
    ELSE IF lo = hi
         THEN IF results[lo] >= lowerBound /\ results[lo] < upperBound
              THEN <<IF state[2] > 0 THEN Append(state[1], state[2]) ELSE state[1], 0>>
              ELSE <<state[1], state[2] + 1>>
    ELSE LET mid == (lo + hi) \div 2
             left == GapScan(results, lowerBound, upperBound, state, lo, mid)
         IN  \* the left half is finished before the right half is entered
             IF left[2] < 0 THEN left
             ELSE GapScan(results, lowerBound, upperBound, left, mid + 1, hi)

\* bins = Math.min(maxGap + 1, 10)
GapBins(gaps) == Min(MaxOf({gaps[i] : i \in 1..Len(gaps)}) + 1, 10)

\* observed[binIndex]++ with binIndex = Math.min(gap, bins - 1)
GapObserved(gaps) ==
    [b \in 1..GapBins(gaps) |->
        CountIf(gaps, LAMBDA x : Min(x, GapBins(gaps) - 1) = b - 1)]

\* expected[k] = p (1 - p)^k gaps.length for the bins before the last, which
\* gets the rest; p = 0.5.
GapExpected(gaps) ==
    [b \in 1..GapBins(gaps) |->
        Ratio(Len(gaps), IF b < GapBins(gaps) THEN 2^b ELSE 2^(GapBins(gaps) - 1))]

\* gapTest(results, lowerBound, upperBound, significanceLevel) for the bounds
\* 0 and 0.5 of the analyser: p = 0.5, so expected[k] = gaps / 2^(k+1) and the
\* last bin expects gaps / 2^(bins-1).
gapTest(results, lowerBound, upperBound, significanceLevel) ==
    LET gaps == GapScan(results, lowerBound, upperBound, <<<<>>, 0>>, 1, Len(results))[1]
        g == Len(gaps)
        bins == GapBins(gaps)
        observed == GapObserved(gaps)
        scale == [b \in 1..bins |-> IF b < bins THEN 2^b ELSE 2^(bins - 1)]
        term == [b \in 1..bins |->
                    Ratio((observed[b] * scale[b] - g) * (observed[b] * scale[b] - g),
                          g * scale[b])]
        chiSquare == SumRange(term, 1, bins)
        pValue == Q - chiSquareCDF(chiSquare, bins - 1)
    IN  IF g < 10 THEN InsufficientResult("Gap Test", "Insufficient gaps found")
        ELSE TestResult("Gap Test", chiSquare, pValue,
                        Exceeds(pValue, significanceLevel))

\* 0.95, the normalized entropy a batch has to exceed.
EntropyPass == 996147

\* entropyTest(results, bins): maxEntropy = log2(256) = 8.
entropyTest(results, bins) ==
    LET n == Len(results)
        counts == [b \in 1..bins |-> CountIf(results, LAMBDA m : BinIndex(m, bins) = b - 1)]
        term == [b \in 1..bins |->
                    IF counts[b] > 0
                    THEN LET p == Ratio(counts[b], n) IN MulFix(p, Log2(p))
                    ELSE 0]
        entropy == -SumRange(term, 1, bins)
        normalizedEntropy == DivFix(entropy, Log2(bins * Q))
    IN  TestResult("Entropy Test", entropy, normalizedEntropy,
                   normalizedEntropy > EntropyPass)

(***************************************************************************)
(* Anomaly detectors (anomaly-detector.ts)                                 *)
(***************************************************************************)

AnomalyResult(type, detected, confidence) ==
    [type |-> type, detected |-> detected, confidence |-> confidence]

\* The loop over binary[lo..hi] that tracks the longest streak of wins
\* (isWin = TRUE) or of losses: state = <<max streak, current streak>>.  The
\* range is walked left to right, halved at each step.
RECURSIVE StreakScan(_, _, _, _, _)
StreakScan(binary, isWin, state, lo, hi) ==
    IF lo > hi THEN state
    ELSE IF lo = hi
         THEN IF binary[lo] = isWin
              THEN <<Max(state[1], state[2] + 1), state[2] + 1>>
              ELSE <<state[1], 0>>
    ELSE LET mid == (lo + hi) \div 2
             left == StreakScan(binary, isWin, state, lo, mid)
         IN  \* the left half is finished before the right half is entered
             IF left[1] < left[2] THEN left
             ELSE StreakScan(binary, isWin, left, mid + 1, hi)

\* (n - k + 1) * Math.pow(0.5, k), below the grid from k = 31 on.  A value of 1
\* or more is held as 1: the value is only read through Math.min beside one
\* that is below 0.01.
StreakProbability(n, k) ==
    IF k > 30 THEN 0
    ELSE IF n - k + 1 >= 2^k THEN Q
    ELSE IF k <= 20 THEN (n - k + 1) * 2^(20 - k)
    ELSE (n - k + 1) \div 2^(k - 20)

\* Variant of StreakSuspicious with a threshold of 0.001.
StreakSuspiciousBelowThousandth(n, k) == k > 30 \/ 1000 * (n - k + 1) < 2^k

\* (n - k + 1) * 0.5^k < 0.01, decided on the integers.
StreakSuspicious(n, k) == k > 30 \/ 100 * (n - k + 1) < 2^k

\* detectSuspiciousStreaks(results, winThreshold)
detectSuspiciousStreaks(results, winThreshold) ==
    LET n == Len(results)
        binary == Tuple([i \in 1..n |-> results[i] >= winThreshold], n)
        maxWinStreak == StreakScan(binary, TRUE, <<0, 0>>, 1, n)[1]
        maxLoseStreak == StreakScan(binary, FALSE, <<0, 0>>, 1, n)[1]
        detected == \/ StreakSuspicious(n, maxWinStreak)
                    \/ StreakSuspicious(n, maxLoseStreak)
        confidence == IF detected
                      THEN Q - Min(StreakProbability(n, maxWinStreak),
                                   StreakProbability(n, maxLoseStreak))
                      ELSE 0
    IN  AnomalyResult("streak", detected, confidence)

\* detectDistributionBias(results, bins): |o - n/bins| / (n/bins) = |bins o - n| / n,
\* above 0.3 when 10 |bins o - n| > 3 n.
detectDistributionBias(results, bins) ==
    LET n == Len(results)
        observed == [b \in 1..bins |-> CountIf(results, LAMBDA m : BinIndex(m, bins) = b - 1)]
        deviation == MaxOf({Abs(bins * observed[b] - n) : b \in 1..bins})
        detected == n > 0 /\ 10 * deviation > 3 * n
        confidence == IF detected THEN Min(Ratio(2 * deviation, n), Q) ELSE 0
    IN  AnomalyResult("bias", detected, confidence)

\* 0.3, the autocorrelation that gives full confidence.
PatternFullConfidence == 314573

\* detectRepeatingPatterns(results, maxLag).  A lag whose denominator is zero
\* has a zero numerator: its autocorrelation is NaN, which is never
\* significant, and Math.max over a list that holds a NaN is NaN.
detectRepeatingPatterns(results, maxLag) ==
    LET n == Len(results)
        mean == SumRange([i \in 1..n |-> Sample(results[i])], 1, n) \div n
        diff == Tuple([i \in 1..n |-> Sample(results[i]) - mean], n)
        square == Tuple([i \in 1..n |-> MulFix(diff[i], diff[i])], n)
        autocorrelations ==
            Tuple([lag \in 1..maxLag |->
                     LET numerator ==
                             SumRange([i \in 1..(n - lag) |-> MulFix(diff[i], diff[i + lag])],
                                      1, n - lag)
                         denominator == SumRange(square, 1, n - lag)
                     IN  IF denominator = 0 THEN NaN
                         ELSE DivFix(numerator, denominator)], maxLag)
        significanceThreshold == DivFix(2 * Q, SqrtFix(n * Q))
        detected == \E lag \in 1..maxLag :
                        /\ autocorrelations[lag] # NaN
                        /\ Abs(autocorrelations[lag]) > significanceThreshold
        maxCorrelation ==
            IF \E lag \in 1..maxLag : autocorrelations[lag] = NaN THEN NaN
            ELSE MaxOf({Abs(autocorrelations[lag]) : lag \in 1..maxLag})
        confidence == IF ~detected THEN 0
                      ELSE IF maxCorrelation = NaN THEN NaN
                      ELSE Min(DivFix(maxCorrelation, PatternFullConfidence), Q)
    IN  IF n < maxLag * 2 THEN AnomalyResult("pattern", FALSE, 0)
        ELSE AnomalyResult("pattern", detected, confidence)

\* 0.1 and 0.2, the deviation that is flagged and the one of full confidence.
TimingDeviationThreshold == 104858

TimingFullConfidence == 209715

\* calcAvg of the results that follow a delay of one category.
TimingAverage(results, timestamps, InCategory(_)) ==
    LET members == {i \in 2..Len(timestamps) : InCategory(timestamps[i] - timestamps[i - 1])}
        total == SumRange([i \in 1..Len(results) |->
                              IF i \in members THEN Sample(results[i]) ELSE 0],
                          1, Len(results))
    IN  IF members = {} THEN Q \div 2 ELSE total \div Cardinality(members)

\* detectTimingPatterns(results, timestamps)
detectTimingPatterns(results, timestamps) ==
    LET avgFast == TimingAverage(results, timestamps, LAMBDA delta : delta < 1000)
        avgMedium == TimingAverage(results, timestamps,
                                   LAMBDA delta : delta >= 1000 /\ delta < 5000)
        avgSlow == TimingAverage(results, timestamps, LAMBDA delta : delta >= 5000)
        maxDeviation == Max(Abs(avgFast - Q \div 2),
                            Max(Abs(avgMedium - Q \div 2), Abs(avgSlow - Q \div 2)))
        detected == maxDeviation > TimingDeviationThreshold
        confidence == IF detected
                      THEN Min(DivFix(maxDeviation, TimingFullConfidence), Q)
                      ELSE 0
    IN  IF Len(timestamps) # Len(results) \/ Len(timestamps) < 10
        THEN AnomalyResult("timing", FALSE, 0)
        ELSE AnomalyResult("timing", detected, confidence)

\* detectClustering(results, clusterThreshold) for the threshold 0.1 of the
\* analyser: |x - y| < 0.1 on the grid is 10 |m - m'| < 1024, and
\* z = (sp/(n-1) - 0.2) / sqrt(0.16/(n-1)) = (5 sp - (n-1)) / (2 sqrt(n-1)).
\* z > 2 is decided on the integers; where z is exactly 2 the doubles decide:
\* of the batch sizes from 30 to 121 only 37 and 101 can meet it, and the
\* quotient evaluates to 1.9999999999999991 and to 2.0000000000000004.
detectClustering(results) ==
    LET n == Len(results)
        similarPairs == Cardinality({i \in 2..n : 10 * Abs(results[i] - results[i - 1]) < Grid})
        excess == 5 * similarPairs - (n - 1)
        zScore == DivFix(excess * Q, 2 * SqrtFix((n - 1) * Q))
        detected == /\ excess > 0
                    /\ \/ excess * excess > 16 * (n - 1)
                       \/ excess * excess = 16 * (n - 1) /\ n = 101
        confidence == IF detected THEN Min(zScore \div 4, Q) ELSE 0
    IN  IF n < 20 THEN AnomalyResult("cluster", FALSE, 0)
        ELSE AnomalyResult("cluster", detected, confidence)

\* An absent timestamps option; a timestamp is a non-negative number of
\* milliseconds.
NoTimestamps == <<-1>>

\* Variant of detectAllAnomalies that returns the result of every heuristic.
detectAllAnomaliesUnfiltered(results, timestamps) ==
    <<detectSuspiciousStreaks(results, Grid \div 2),
      detectDistributionBias(results, 4),
      detectRepeatingPatterns(results, 20),
      detectClustering(results)>>
    \o IF timestamps # NoTimestamps /\ Len(timestamps) = Len(results)
       THEN <<detectTimingPatterns(results, timestamps)>>
       ELSE <<>>

\* detectAllAnomalies(results, timestamps): the detected anomalies in the order
\* streak, bias, pattern, cluster, timing.
detectAllAnomalies(results, timestamps) ==
    LET timed == IF timestamps # NoTimestamps /\ Len(timestamps) = Len(results)
                 THEN <<detectTimingPatterns(results, timestamps)>>
                 ELSE <<>>
        all == <<detectSuspiciousStreaks(results, Grid \div 2),
                 detectDistributionBias(results, 4),
                 detectRepeatingPatterns(results, 20),
                 detectClustering(results)>> \o timed
    IN  SelectSeq(all, LAMBDA a : a.detected)

(***************************************************************************)
(* RNG analyser (rng-analyzer.ts)                                          *)
(***************************************************************************)

\* Math.log10 of a sample size; it is exact at the powers of ten.
Log10OfCount(n) ==
    CASE n = 1 -> 0
      [] n = 10 -> Q
      [] n = 100 -> 2 * Q
      [] n = 1000 -> 3 * Q
      [] OTHER -> Log10(n * Q)

\* Math.round of a non-negative score, as an integer.
Round(x) == IF x = NaN THEN NaN ELSE (x + Q \div 2) \div Q

\* sum of confidence * 25; a NaN confidence makes the sum NaN.
AnomalyPenalty(anomalies) ==
    IF \E i \in 1..Len(anomalies) : anomalies[i].confidence = NaN THEN NaN
    ELSE SumRange([i \in 1..Len(anomalies) |-> anomalies[i].confidence * 25],
                  1, Len(anomalies))

\* The score before it is rounded: Math.max(0, Math.min(100, NaN)) is NaN.
ClampedScore(tests, anomalies, sampleSize) ==
    LET passedTests == CountIf(tests, LAMBDA t : t.passed)
        testScore == IF Len(tests) > 0 THEN Ratio(passedTests * 100, Len(tests))
                     ELSE 100 * Q
        anomalyPenalty == AnomalyPenalty(anomalies)
        sampleBonus == Min(10 * Q, Log10OfCount(sampleSize) * 5)
    IN  IF anomalyPenalty = NaN THEN NaN
        ELSE Max(0, Min(100 * Q, testScore - anomalyPenalty + sampleBonus))

\* Variant of calculateOverallAssessment that scores an empty analysis like
\* any other.
calculateOverallAssessmentOfAnything(tests, anomalies, sampleSize) ==
    LET score == ClampedScore(tests, anomalies, sampleSize)
    IN  [score |-> Round(score),
         verdict |-> IF score # NaN /\ score >= 80 * Q THEN "fair"
                     ELSE IF score # NaN /\ score >= 60 * Q THEN "suspicious"
                     ELSE "concerning"]

\* calculateOverallAssessment(tests, anomalies, sampleSize): the verdict is
\* taken from the clamped score, the score is returned rounded.
calculateOverallAssessment(tests, anomalies, sampleSize) ==
    LET score == ClampedScore(tests, anomalies, sampleSize)
        verdict == IF score # NaN /\ score >= 80 * Q THEN "fair"
                   ELSE IF score # NaN /\ score >= 60 * Q THEN "suspicious"
                   ELSE "concerning"
    IN  IF Len(tests) = 0 /\ Len(anomalies) = 0
        THEN [score |-> 0, verdict |-> "insufficient_data"]
        ELSE [score |-> Round(score), verdict |-> verdict]

\* (a, b) => b.confidence - a.confidence is a consistent comparator unless a
\* NaN confidence, which compares equal to everything, stands beside two
\* confidences that differ.
ConsistentComparator(anomalies) ==
    \/ \A i \in 1..Len(anomalies) : anomalies[i].confidence # NaN
    \/ \A i, j \in 1..Len(anomalies) :
          (anomalies[i].confidence # NaN /\ anomalies[j].confidence # NaN)
          => anomalies[i].confidence = anomalies[j].confidence

\* The position of anomalies[i] after a stable sort by descending confidence.
SortedPosition(anomalies, i) ==
    1 + Cardinality({j \in 1..Len(anomalies) :
                        \/ anomalies[j].confidence > anomalies[i].confidence
                        \/ anomalies[j].confidence = anomalies[i].confidence /\ j < i})

\* What anomalies.sort((a, b) => b.confidence - a.confidence) can leave in the
\* array: Array.prototype.sort is stable; with an inconsistent comparator the
\* order is implementation-defined.
SortOutcomes(anomalies) ==
    LET n == Len(anomalies)
    IN  IF \E i \in 1..n : anomalies[i].confidence = NaN
        THEN IF ConsistentComparator(anomalies) THEN {anomalies}
             ELSE {[k \in 1..n |-> anomalies[p[k]]] : p \in Permutations(1..n)}
        ELSE {[k \in 1..n |->
                 anomalies[CHOOSE i \in 1..n : SortedPosition(anomalies, i) = k]]}

\* An absent analysis type.
UndefinedType == "undefined"

\* 0.05, the default significance level.
DefaultSignificance == 52429

\* Variant of Tests that never runs the gap test.
TestsWithoutGap(results, type, significanceLevel) ==
    IF type \in {"comprehensive", "statistical"}
    THEN <<chiSquareTest(results, 10, significanceLevel),
           runsTest(results, significanceLevel),
           serialCorrelationTest(results, 1, significanceLevel),
           frequencyTest(results, Grid \div 2, significanceLevel),
           entropyTest(results, 256)>>
    ELSE IF type = "quick"
    THEN <<chiSquareTest(results, 10, significanceLevel),
           frequencyTest(results, Grid \div 2, significanceLevel)>>
    ELSE <<>>

\* The tests pushed for an analysis type, in the order they are pushed; the
\* gap test joins the statistical tests from 100 samples on.
Tests(results, type, significanceLevel) ==
    LET statistical ==
            IF type \in {"comprehensive", "statistical"}
            THEN <<chiSquareTest(results, 10, significanceLevel),
                   runsTest(results, significanceLevel),
                   serialCorrelationTest(results, 1, significanceLevel),
                   frequencyTest(results, Grid \div 2, significanceLevel),
                   entropyTest(results, 256)>>
                 \o (IF Len(results) >= 100
                     THEN <<gapTest(results, 0, Grid \div 2, significanceLevel)>>
                     ELSE <<>>)
            ELSE <<>>
        quick ==
            IF type = "quick"
            THEN <<chiSquareTest(results, 10, significanceLevel),
                   frequencyTest(results, Grid \div 2, significanceLevel)>>
            ELSE <<>>
    IN  statistical \o quick

\* The anomalies pushed for an analysis type: all that were detected, or the
\* first two of them in a quick analysis.
Anomalies(results, type, timestamps) ==
    LET detected ==
            IF type \in {"comprehensive", "anomaly"}
            THEN detectAllAnomalies(results, timestamps)
            ELSE <<>>
        quick ==
            IF type = "quick"
            THEN LET all == detectAllAnomalies(results, timestamps)
                 IN  SubSeq(all, 1, Min(2, Len(all)))
            ELSE <<>>
    IN  detected \o quick

\* The object analyzeRNG returns.  The id and the timestamp are fresh with
\* every call and are left out, as are the summary and the details.
AnalysisResult(sampleSize, type, tests, anomalies, assessment) ==
    [sampleSize |-> sampleSize, analysisType |-> type, tests |-> tests,
     anomalies |-> anomalies, overallScore |-> assessment.score,
     verdict |-> assessment.verdict]

\* The analysis of a batch that is large enough: the tests and the anomalies
\* are collected once, assessed, and returned with the anomalies as the sort
\* inside the assessment left them.
Analysis(results, type, significanceLevel, timestamps) ==
    UNION {{AnalysisResult(Len(results), type, tests, sorted, assessment) :
              sorted \in SortOutcomes(anomalies),
              assessment \in {calculateOverallAssessment(tests, anomalies,
                                                         Len(results))}} :
           tests \in {Tests(results, type, significanceLevel)},
           anomalies \in {Anomalies(results, type, timestamps)}}

\* Variant of analyzeRNG that asks for 20 samples only.
analyzeRNGFromTwentySamples(results, options) ==
    LET type == IF options.type = UndefinedType THEN "comprehensive" ELSE options.type
        significanceLevel == IF options.significanceLevel = UndefinedNum
                             THEN DefaultSignificance
                             ELSE options.significanceLevel
        sampleSize == Len(results)
    IN  IF sampleSize < 20
        THEN {AnalysisResult(sampleSize, type, <<>>, <<>>,
                             [score |-> 0, verdict |-> "insufficient_data"])}
        ELSE Analysis(results, type, significanceLevel, options.timestamps)

\* Variant of analyzeRNG whose list of anomalies belongs to the module and is
\* never emptied: the anomalies of the analysis kept from before come first.
analyzeRNGWithModuleAnomalies(results, options) ==
    LET kept == IF earlier.call.op = "analyzeRNG" THEN earlier.ret.value.anomalies
                ELSE <<>>
        type == IF options.type = UndefinedType THEN "comprehensive" ELSE options.type
        significanceLevel == IF options.significanceLevel = UndefinedNum
                             THEN DefaultSignificance
                             ELSE options.significanceLevel
        sampleSize == Len(results)
    IN  IF sampleSize < 30
        THEN {AnalysisResult(sampleSize, type, <<>>, <<>>,
                             [score |-> 0, verdict |-> "insufficient_data"])}
        ELSE {[result EXCEPT !.anomalies = kept \o @] :
                 result \in Analysis(results, type, significanceLevel,
                                     options.timestamps)}

\* analyzeRNG(results, options): the results it can return (one, unless the
\* sort of the anomalies is implementation-defined).
analyzeRNG(results, options) ==
    LET type == IF options.type = UndefinedType THEN "comprehensive" ELSE options.type
        significanceLevel == IF options.significanceLevel = UndefinedNum
                             THEN DefaultSignificance
                             ELSE options.significanceLevel
        sampleSize == Len(results)
    IN  IF sampleSize < 30
        THEN {AnalysisResult(sampleSize, type, <<>>, <<>>,
                             [score |-> 0, verdict |-> "insufficient_data"])}
        ELSE Analysis(results, type, significanceLevel, options.timestamps)

(***************************************************************************)
(* Arrays in memory                                                        *)
(*                                                                         *)
(* The arrays alive during a call, by name: "results" and "timestamps" are *)
(* the caller's arrays, handed over by reference; the others are made by   *)
(* the callee.  The tests and the heuristics read their arguments with     *)
(* indexing, for-of, map, filter, reduce and slice, which write to no      *)
(* array that exists; new Array(bins).fill(0) and push work on arrays the  *)
(* callee has made.  The one sort of samples is the one of runsTest.       *)
(***************************************************************************)

\* array.sort((a, b) => a - b): the array once sorted in place.
Ascending(array) == [k \in 1..Len(array) |-> SortedAt(array, k - 1)]

CallerArrays(results, timestamps) == [results |-> results, timestamps |-> timestamps]

\* Variant of runsTest's median that sorts the array it was given.
runsTestArraysWithoutSpread(objects) ==
    IF Len(objects["results"]) < 10 THEN objects
    ELSE [name \in DOMAIN objects \cup {"sorted"} |->
             IF name \in {"sorted", "results"} THEN Ascending(objects["results"])
             ELSE objects[name]]

\* The arrays after runsTest: [...results] makes a new array, sorted, and the
\* sort works on it.
runsTestArrays(objects) ==
    IF Len(objects["results"]) < 10 THEN objects
    ELSE [name \in DOMAIN objects \cup {"sorted"} |->
             IF name = "sorted" THEN Ascending(objects["results"])
             ELSE objects[name]]

\* The arrays after analyzeRNG, which runs runsTest in a statistical or a
\* comprehensive analysis of 30 samples or more; anomalies.sort sorts the list
\* of anomalies the analysis has made.
analyzeRNGArrays(objects, type) ==
    IF Len(objects["results"]) >= 30
       /\ type \in {UndefinedType, "comprehensive", "statistical"}
    THEN runsTestArrays(objects)
    ELSE objects

\* What the caller holds once the callee's arrays are gone.
Held(objects) ==
    [results |-> objects["results"], timestamps |-> objects["timestamps"]]

(***************************************************************************)
(* Callers of the analyser                                                 *)
(*                                                                         *)
(* A caller hands over the first n outcomes of a recorded series.          *)
(***************************************************************************)

\* The largest batch handed over.
MaxSamples == 100

\* Outcomes that lean high (about 62 in 100 at or above 0.5) without a streak,
\* a pattern or a cluster.
QuietSeries ==
    <<
      769, 153, 929, 701, 322, 892, 566, 725, 262, 722, 868, 768, 237, 960, 988, 725,
      566, 561, 236, 717, 17, 961, 629, 139, 126, 774, 682, 893, 391, 312, 658, 788,
      801, 72, 868, 450, 6, 912, 282, 418, 376, 422, 194, 105, 770, 517, 844, 988,
      178, 891, 546, 635, 638, 417, 516, 525, 234, 512, 513, 554, 673, 629, 137, 613,
      876, 456, 711, 915, 861, 962, 159, 614, 292, 774, 899, 629, 921, 904, 166, 820,
      358, 310, 7, 515, 804, 618, 479, 992, 563, 678, 988, 212, 477, 321, 136, 43,
      246, 854, 339, 611, 547
    >>

\* Outcomes of a uniform generator.
FairSeries ==
    <<
      80, 812, 1010, 54, 448, 494, 193, 796, 971, 390, 337, 681, 237, 709, 253, 106,
      595, 563, 953, 615, 1000, 511, 544, 61, 690, 706, 649, 191, 116, 891, 183, 7,
      214, 62, 185, 39, 348, 74, 986, 110, 387, 678, 411, 976, 696, 980, 719, 70,
      782, 624, 807, 179, 600, 377, 845, 234, 798, 684, 824, 357, 790, 735, 376, 743,
      849, 897, 469, 910, 984, 706, 551, 347, 792, 997, 87, 315, 351, 47, 956, 188,
      198, 655, 485, 115, 98, 921, 955, 683, 757, 3, 147, 399, 817, 215, 693, 637,
      225, 922, 165, 430, 492
    >>

\* Outcomes that drift: each is close to the one before.
WalkSeries ==
    <<
      27, 0, 149, 4, 0, 0, 0, 0, 0, 137, 250, 314, 422, 435, 559, 505,
      594, 534, 424, 295, 202, 64, 0, 0, 0, 0, 0, 88, 142, 106, 11, 109,
      136, 192, 270, 176, 175, 252, 296, 251, 160, 286, 139, 226, 229, 118, 142, 169,
      117, 215, 101, 233, 269, 335, 219, 334, 293, 270, 299, 180, 201, 171, 241, 315,
      208, 186, 147, 162, 96, 51, 12, 99, 223, 287, 325, 272, 331, 428, 486, 576,
      726, 593, 592, 451, 395, 294, 158, 85, 85, 192, 307, 188, 279, 149, 98, 54,
      45, 146, 217, 86, 112
    >>

\* A generator that is stuck at 0.5 for its first 20 outcomes and then
\* alternates between 0.25 and 0.75.
StuckSeries ==
    [i \in 1..(MaxSamples + 1) |->
        IF i <= 20 THEN 512 ELSE IF (i % 2) = 1 THEN 256 ELSE 768]

\* A generator that returns 0.5 forever.
ConstantSeries == [i \in 1..(MaxSamples + 1) |-> 512]

Series == <<QuietSeries, FairSeries, WalkSeries, StuckSeries, ConstantSeries>>

\* Batch sizes around the thresholds of the analyser: the minimum of 30, the
\* 40 of the pattern detector and the 100 of the gap test.
SampleSizes == {0, 29, 30, 40, 99} \cup 100..MaxSamples

Batches == {SubSeq(Series[s], 1, n) : s \in 1..Len(Series), n \in SampleSizes}

AnalysisTypes == {"comprehensive", "quick", "statistical", "anomaly"}

\* Bets placed in turn 0.5 s and 6 s after the bet before, from time 0.
AlternatingTimestamps(n) ==
    [i \in 1..n |-> ((i - 1) \div 2) * 6500 + ((i - 1) % 2) * 500]

\* The significance levels asked for: the default, or 0.01.
SignificanceLevels == {UndefinedNum, 10486}

AnalysisOptions(results) ==
    [type : AnalysisTypes \cup {UndefinedType},
     significanceLevel : SignificanceLevels,
     timestamps : {NoTimestamps, AlternatingTimestamps(Len(results))}]

InitAnalyze == Loaded /\ engine = AnyEngine

\* The k-th of the outcomes, in a fixed enumeration of them, or the last one.
RECURSIVE KthOutcome(_, _)
KthOutcome(outcomes, k) ==
    LET first == CHOOSE outcome \in outcomes : TRUE
    IN  IF k <= 1 \/ Cardinality(outcomes) = 1 THEN first
        ELSE KthOutcome(outcomes \ {first}, k - 1)

\* What an implementation-defined sort leaves on a given engine: an engine
\* runs one sort algorithm, so that it orders the same list in the same way
\* every time; an engine left open takes any of the orders.
EngineOutcomes(outcomes, k) ==
    IF k = AnyEngine THEN outcomes ELSE {KthOutcome(outcomes, k)}

\* analyzeRNG(results, options) is called and returns.
Analyze(results, options) ==
    /\ call' = [op |-> "analyzeRNG",
                input |-> [results |-> results, options |-> options]]
    /\ \E result \in EngineOutcomes(analyzeRNG(results, options), engine) :
          ret' = Return(result)
    /\ arrays' = Held(analyzeRNGArrays(CallerArrays(results, options.timestamps),
                                       options.type))
    /\ pc' = "returned"
    /\ UNCHANGED <<runtimeVars, trackerVars, anchorVars>>

\* A caller has a batch analysed.
AnalyzeCall ==
    /\ pc = "idle"
    /\ \E results \in Batches :
          \E options \in AnalysisOptions(results) : Analyze(results, options)

NextAnalyze == AnalyzeCall \/ Finish

SpecAnalyze == InitAnalyze /\ [][NextAnalyze]_vars

(***************************************************************************)
(* Callers of the statistical tests and of the anomaly detectors           *)
(*                                                                         *)
(* The tests and the detectors are exported and are called on their own    *)
(* as well, with batches of any length.                                    *)
(***************************************************************************)

\* Outcomes that alternate between a win (0.75) and a loss (0.25).
AlternatingSeries == [i \in 1..(MaxSamples + 1) |-> IF (i % 2) = 1 THEN 768 ELSE 256]

TestSeries == Series \o <<AlternatingSeries>>

\* Batch sizes around the minimum of the runs test (10), of the serial
\* correlation test (11 at lag 1) and of the analyser, and a full batch.
TestSizes == {0, 1, 9, 10, 11, 12, 30, 40, MaxSamples}

TestBatches == {SubSeq(TestSeries[s], 1, n) : s \in 1..Len(TestSeries), n \in TestSizes}

FiveTestNames ==
    {"Chi-Square Test", "Runs Test", "Serial Correlation Test", "Frequency Test",
     "Gap Test"}

TestNames == FiveTestNames \cup {"Entropy Test"}

\* The significance levels a caller passes: 1 %, 5 % and 10 %.
TestSignificanceLevels == {10486, DefaultSignificance, 104858}

\* A test called with the other parameters at their defaults: 10 bins, lag 1,
\* threshold 0.5, the range [0, 0.5), 256 bins.
RunTest(testName, results, significanceLevel) ==
    CASE testName = "Chi-Square Test" -> chiSquareTest(results, 10, significanceLevel)
      [] testName = "Runs Test" -> runsTest(results, significanceLevel)
      [] testName = "Serial Correlation Test" ->
            serialCorrelationTest(results, 1, significanceLevel)
      [] testName = "Frequency Test" ->
            frequencyTest(results, Grid \div 2, significanceLevel)
      [] testName = "Gap Test" -> gapTest(results, 0, Grid \div 2, significanceLevel)
      [] OTHER -> entropyTest(results, 256)

\* A caller runs one statistical test on a batch.
TestCall ==
    /\ pc = "idle"
    /\ \E testName \in TestNames, results \in TestBatches,
          significanceLevel \in TestSignificanceLevels :
          /\ call' = [op |-> "test",
                      input |-> [testName |-> testName, results |-> results,
                                 significanceLevel |-> significanceLevel]]
          /\ ret' = Return(RunTest(testName, results, significanceLevel))
          /\ arrays' = IF testName = "Runs Test"
                       THEN Held(runsTestArrays(CallerArrays(results, NoTimestamps)))
                       ELSE CallerArrays(results, NoTimestamps)
    /\ pc' = "returned"
    /\ UNCHANGED <<runtimeVars, trackerVars, anchorVars>>

Heuristics == {"streak", "bias", "pattern", "timing", "cluster"}

\* 20 wins followed by outcomes that alternate between a loss and a win.
LongStreakSeries(n) == [i \in 1..n |-> IF i <= 20 \/ (i % 2) = 0 THEN 768 ELSE 256]

\* The longest batch in which a streak of 20 is still improbable enough to be
\* flagged, 100 * (n - 19) < 2^20, and the batch one outcome longer.
LongBatches == {LongStreakSeries(10504), LongStreakSeries(10505)}

\* The long batches go to the streak detector alone.
DetectorBatches(heuristic) ==
    IF heuristic = "streak" THEN TestBatches \cup LongBatches ELSE TestBatches

\* The timestamps handed over with a batch: none, one for each outcome, or one
\* too many.
TimestampChoices(results) ==
    {NoTimestamps, AlternatingTimestamps(Len(results)),
     AlternatingTimestamps(Len(results) + 1)}

\* A heuristic called with its other parameters at their defaults: a win from
\* 0.5, 4 bins, 20 lags, a cluster threshold of 0.1.
RunDetector(heuristic, results, timestamps) ==
    CASE heuristic = "streak" -> detectSuspiciousStreaks(results, Grid \div 2)
      [] heuristic = "bias" -> detectDistributionBias(results, 4)
      [] heuristic = "pattern" -> detectRepeatingPatterns(results, 20)
      [] heuristic = "timing" -> detectTimingPatterns(results, timestamps)
      [] OTHER -> detectClustering(results)

\* A caller runs one heuristic on a batch; only the timing heuristic takes
\* timestamps.
DetectorCall ==
    /\ pc = "idle"
    /\ \E heuristic \in Heuristics :
          \E results \in DetectorBatches(heuristic) :
             \E timestamps \in IF heuristic = "timing"
                               THEN TimestampChoices(results) \ {NoTimestamps}
                               ELSE {NoTimestamps} :
                /\ call' = [op |-> "detector",
                            input |-> [heuristic |-> heuristic, results |-> results,
                                       timestamps |-> timestamps]]
                /\ ret' = Return(RunDetector(heuristic, results, timestamps))
                /\ arrays' = CallerArrays(results, timestamps)
    /\ pc' = "returned"
    /\ UNCHANGED <<runtimeVars, trackerVars, anchorVars>>

\* A caller runs all the heuristics on a batch.
DetectAllCall ==
    /\ pc = "idle"
    /\ \E results \in TestBatches :
          \E timestamps \in TimestampChoices(results) :
             /\ call' = [op |-> "detectAllAnomalies",
                         input |-> [results |-> results, timestamps |-> timestamps]]
             /\ ret' = Return(detectAllAnomalies(results, timestamps))
             /\ arrays' = CallerArrays(results, timestamps)
    /\ pc' = "returned"
    /\ UNCHANGED <<runtimeVars, trackerVars, anchorVars>>

NextRng == AnalyzeCall \/ TestCall \/ DetectorCall \/ DetectAllCall \/ Finish

SpecRng == InitAnalyze /\ [][NextRng]_vars

(***************************************************************************)
(* Callers that call again                                                 *)
(*                                                                         *)
(* The process runs on one engine.  Calls of verifyProvablyFair and of     *)
(* analyzeRNG follow one another in any order (both are synchronous, so    *)
(* that calls made concurrently run one after the other); earlier keeps    *)
(* one call that has returned, and what it returned.  The id and the       *)
(* timestamp of an AnalysisResult, new at every call, are not part of the  *)
(* results modelled.                                                       *)
(***************************************************************************)

\* No more engines than MaxEngine are told apart.
MaxEngine == 2

SortEngines == 1..MaxEngine

InitRepeat == Loaded /\ engine \in SortEngines

\* A bet under each scheme argument, its commitment being the hash of the seed.
RepeatedVerifications ==
    {input \in VerificationInputs :
        /\ input.serverSeed = <<107>>
        /\ input.serverSeedHash = sha256(<<107>>)
        /\ input.clientSeed = <<99>>
        /\ input.nonce = 0
        /\ input.algorithm = "sha256"
        /\ input.cursor = UndefinedNum}

\* A batch too short, a fair one, and one whose anomalies sort in several ways.
RepeatedBatches ==
    {SubSeq(FairSeries, 1, 29), SubSeq(FairSeries, 1, 30), SubSeq(StuckSeries, 1, 40)}

RepeatedOptions(results) ==
    {options \in AnalysisOptions(results) :
        /\ options.type \in {"comprehensive", "quick", "anomaly"}
        /\ options.significanceLevel = UndefinedNum
        /\ options.timestamps = NoTimestamps}

VerifyAgainCall ==
    /\ pc = "idle"
    /\ \E input \in RepeatedVerifications : Verify(input)

AnalyzeAgainCall ==
    /\ pc = "idle"
    /\ \E results \in RepeatedBatches :
          \E options \in RepeatedOptions(results) : Analyze(results, options)

\* The caller takes the result and keeps it to compare.
Remember ==
    /\ pc = "returned"
    /\ earlier' = [call |-> call, ret |-> ret]
    /\ pc' = "idle"
    /\ call' = NoCall
    /\ ret' = NoRet
    /\ arrays' = NoArrays
    /\ UNCHANGED <<schemes, engine, trackerVars, anchorVars>>

NextRepeat == VerifyAgainCall \/ AnalyzeAgainCall \/ Remember \/ Finish

SpecRepeat == InitRepeat /\ [][NextRepeat]_vars

(***************************************************************************)
(* Game outcomes (lib/verification/index.ts)                               *)
(* Numbers are exact fractions here; a quotient by zero is Infinity.       *)
(***************************************************************************)

RECURSIVE GCD(_, _)
GCD(a, b) == IF b = 0 THEN a ELSE GCD(b, a % b)

\* num / den in lowest terms; x / 0 with x > 0 is Infinity.
Rational(num, den) ==
    IF den = 0 THEN [num |-> 1, den |-> 0]
    ELSE [num |-> num \div GCD(num, den), den |-> den \div GCD(num, den)]

Number(k) == Rational(k, 1)

Minus(a, b) == Rational(a.num * b.den - b.num * a.den, a.den * b.den)

Times(a, b) == Rational(a.num * b.num, a.den * b.den)

Over(a, b) == Rational(a.num * b.den, a.den * b.num)

Less(a, b) == a.num * b.den < b.num * a.den

\* Math.max(a, b)
MathMax(a, b) == IF Less(a, b) THEN b ELSE a

\* Variant of MathFloor that rounds to the nearest integer.
MathRound(a) == (2 * a.num + a.den) \div (2 * a.den)

\* Math.floor(a), an integer
MathFloor(a) == a.num \div a.den

\* The integer nearest to a * 10^digits, the larger of two that are as near,
\* found digit by digit.
RECURSIVE Scaled(_, _, _, _)
Scaled(whole, rest, den, digits) ==
    IF digits = 0 THEN IF 2 * rest >= den THEN whole + 1 ELSE whole
    ELSE Scaled(10 * whole + (10 * rest) \div den, (10 * rest) % den, den, digits - 1)

\* Number.prototype.toFixed(digits): the decimal rendering with that many
\* digits, held as the number of units of 10^-digits.
toFixed(a, digits) ==
    IF a.den = 0 THEN "Infinity"
    ELSE [digits |-> digits, units |-> Scaled(a.num \div a.den, a.num % a.den, a.den, digits)]

\* gameType.toLowerCase()
LowerCaseGameType(gameType) ==
    CASE gameType = "DICE" -> "dice"
      [] gameType = "Crash" -> "crash"
      [] gameType = "Roulette" -> "roulette"
      [] OTHER -> gameType

suits == <<"Hearts", "Diamonds", "Clubs", "Spades">>

values == <<"A", "2", "3", "4", "5", "6", "7", "8", "9", "10", "J", "Q", "K">>

\* array[index], undefined past the end
ElementAt(array, index) ==
    IF index + 1 \in DOMAIN array THEN array[index + 1] ELSE "undefined"

houseEdge == Rational(1, 100)

GameOutcome(raw, formatted) == [raw |-> raw, formatted |-> formatted]

\* Variant of the crash formula without the floor of 1.
crashPointUnclamped(normalizedFloat) ==
    Over(Minus(Number(1), houseEdge), Minus(Number(1), normalizedFloat))

\* Math.max(1, (1 - houseEdge) / (1 - normalizedFloat))
crashPoint(normalizedFloat) ==
    MathMax(Number(1),
            Over(Minus(Number(1), houseEdge), Minus(Number(1), normalizedFloat)))

\* formatGameOutcome(normalizedFloat, gameType)
formatGameOutcome(normalizedFloat, gameType) ==
    LET game == LowerCaseGameType(gameType)
        diceRoll == Times(normalizedFloat, Number(100))
        limboMultiplier == Over(Number(1), normalizedFloat)
        tilePosition == MathFloor(Times(normalizedFloat, Number(25)))
        kenoNumber == MathFloor(Times(normalizedFloat, Number(40))) + 1
        rouletteNumber == MathFloor(Times(normalizedFloat, Number(37)))
        cardIndex == MathFloor(Times(normalizedFloat, Number(52)))
    IN  CASE game = "dice" -> GameOutcome(diceRoll, <<toFixed(diceRoll, 2)>>)
          [] game = "crash" ->
                GameOutcome(crashPoint(normalizedFloat),
                            <<toFixed(crashPoint(normalizedFloat), 2), "x">>)
          [] game = "limbo" ->
                GameOutcome(limboMultiplier, <<toFixed(limboMultiplier, 2), "x">>)
          [] game = "plinko" ->
                GameOutcome(normalizedFloat,
                            <<IF Less(normalizedFloat, Rational(1, 2)) THEN "left"
                              ELSE "right">>)
          [] game = "mines" ->
                GameOutcome(Number(tilePosition), <<"Tile ", tilePosition + 1>>)
          [] game = "keno" -> GameOutcome(Number(kenoNumber), <<"#", kenoNumber>>)
          [] game = "roulette" -> GameOutcome(Number(rouletteNumber), <<rouletteNumber>>)
          [] game \in {"blackjack", "poker", "baccarat"} ->
                GameOutcome(Number(cardIndex),
                            <<ElementAt(values, cardIndex % 13), " of ",
                              ElementAt(suits, cardIndex \div 13)>>)
          [] OTHER -> GameOutcome(normalizedFloat, <<toFixed(normalizedFloat, 8)>>)

(***************************************************************************)
(* Callers of the primitives and of the outcome formatter                  *)
(***************************************************************************)

\* The first bytes of the digests a caller converts: all zero, all ones, the
\* four-byte extremes, the integers around 2^53 and digests of the model.
DigestHeads ==
    {[i \in 1..9 |-> b] : b \in {0, 1, 127, 128, 255}}
    \cup {<<255, 255, 255, 255, 0, 0, 0, 0, 0>>, <<0, 0, 0, 0, 255, 255, 255, 255, 255>>,
          <<0, 0, 0, 1, 0, 0, 0, 0, 0>>, <<127, 255, 255, 255, 255, 255, 255, 255, 255>>,
          <<0, 31, 255, 255, 255, 255, 255, 255, 0>>, <<0, 32, 0, 0, 0, 0, 0, 1, 0>>,
          <<0, 63, 255, 255, 255, 255, 255, 255, 0>>, <<255, 255, 255, 255, 255, 255, 248, 0, 0>>,
          <<255, 255, 255, 255, 255, 255, 252, 0, 0>>, <<128, 0, 0, 0, 0, 0, 0, 1, 0>>,
          <<128, 0, 0, 0, 0, 0, 4, 1, 0>>, <<18, 52, 86, 120, 154, 188, 222, 240, 15>>}

Digests ==
    {HexOfBytes(head) : head \in DigestHeads}
    \cup {toUpperCase(HexOfBytes(head)) : head \in DigestHeads}
    \cup {hmacSha256(<<107>>, <<99, 58, 48>>), hmacSha512(<<122>>, <<109, 58, 49>>)}

\* bytesToUse: up to the eight bytes of a 64-bit integer, or left out.
ByteWidths == 1..8 \cup {UndefinedNum}

HashToFloatImplementations == {"crypto", "generic", "stake", "bc-game"}

RunHashToFloat(implementation, hash, bytesToUse) ==
    LET width == IF bytesToUse = UndefinedNum THEN 4 ELSE bytesToUse
    IN  CASE implementation = "crypto" -> hashToFloat(hash, width)
          [] implementation = "generic" -> genericHashToFloat(hash, width)
          [] implementation = "stake" -> stakeHashToFloat(hash, width)
          [] OTHER -> bcGameHashToFloat(hash, width)

\* A caller converts a digest with the primitive or with a scheme.
HashToFloatCall ==
    /\ pc = "idle"
    /\ \E implementation \in HashToFloatImplementations, hash \in Digests,
          bytesToUse \in ByteWidths :
          /\ call' = [op |-> "hashToFloat",
                      input |-> [implementation |-> implementation, hash |-> hash,
                                 bytesToUse |-> bytesToUse]]
          /\ ret' = Return(RunHashToFloat(implementation, hash, bytesToUse))
    /\ pc' = "returned"
    /\ UNCHANGED <<arrays, runtimeVars, trackerVars, anchorVars>>

MaxStringLength == 3

\* The strings a caller compares: 'a', 'b' and a character beyond Latin-1.
Characters == {97, 98, 353}

Strings == UNION {[1..n -> Characters] : n \in 0..MaxStringLength}

\* A caller compares two strings.
TimingSafeEqualCall ==
    /\ pc = "idle"
    /\ \E a \in Strings, b \in Strings :
          /\ call' = [op |-> "timingSafeEqual", input |-> [a |-> a, b |-> b]]
          /\ ret' = Return(timingSafeEqual(a, b))
    /\ pc' = "returned"
    /\ UNCHANGED <<arrays, runtimeVars, trackerVars, anchorVars>>

\* The normalized floats a caller formats: the multiples of 1/1024 in [0, 1],
\* 1 being what hashToFloat returns once it rounds up.
NormalizedFloats == {Rational(m, Grid) : m \in 0..Grid}

GameTypes ==
    {"dice", "DICE", "crash", "Crash", "limbo", "plinko", "mines", "keno", "roulette",
     "Roulette", "blackjack", "poker", "baccarat", "slots"}

\* A caller formats a normalized float for a game.
FormatGameOutcomeCall ==
    /\ pc = "idle"
    /\ \E normalizedFloat \in NormalizedFloats, gameType \in GameTypes :
          /\ call' = [op |-> "formatGameOutcome",
                      input |-> [normalizedFloat |-> normalizedFloat,
                                 gameType |-> gameType]]
          /\ ret' = Return(formatGameOutcome(normalizedFloat, gameType))
    /\ pc' = "returned"
    /\ UNCHANGED <<arrays, runtimeVars, trackerVars, anchorVars>>

NextPrimitives == HashToFloatCall \/ TimingSafeEqualCall \/ FormatGameOutcomeCall \/ Finish

SpecPrimitives == InitVerify /\ [][NextPrimitives]_vars

(***************************************************************************)
(* Properties of the analyser                                              *)
(***************************************************************************)

AnalyzeReturned == pc = "returned" /\ call.op = "analyzeRNG"

\* Comparisons as JavaScript makes them: every comparison with NaN is false.
AtLeast(x, k) == x # NaN /\ x >= k

Below(x, k) == x # NaN /\ x < k

\* The set of the names, each given once, of a list of tests.
OnceEach(tests, names) ==
    /\ Len(tests) = Cardinality(names)
    /\ {tests[i].testName : i \in 1..Len(tests)} = names

FiveTests ==
    {"Chi-Square Test", "Runs Test", "Serial Correlation Test", "Frequency Test",
     "Entropy Test"}

SixTests == FiveTests \cup {"Gap Test"}

\* C7: analyze called with fewer than 30 samples returns, for every analysis
\* type and whatever the sample values, timestamps or significance level,
\* verdict insufficient_data, overallScore 0, an empty tests list and an empty
\* anomalies list.
C7_InsufficientData ==
    (AnalyzeReturned /\ Len(call.input.results) < 30)
    => /\ ~ret.threw
       /\ ret.value.verdict = "insufficient_data"
       /\ ret.value.overallScore = 0
       /\ ret.value.tests = <<>>
       /\ ret.value.anomalies = <<>>

\* C7 witness: 29 outcomes of the generator that returns 0.5 forever, sent with
\* timestamps and a significance level of 0.01 for an anomaly analysis, come
\* back as insufficient data.
C7_Witness ==
    /\ AnalyzeReturned
    /\ call.input.results = SubSeq(ConstantSeries, 1, 29)
    /\ call.input.options.type = "anomaly"
    /\ call.input.options.timestamps = AlternatingTimestamps(29)
    /\ call.input.options.significanceLevel = 10486
    /\ ret.value.verdict = "insufficient_data"
    /\ ret.value.sampleSize = 29

\* C8 (as claimed): in every result produced from at least 30 samples the
\* verdict is fair exactly when the returned overallScore is at least 80,
\* suspicious exactly when it is at least 60 and below 80, and concerning
\* exactly when it is below 60.
C8_VerdictFollowsReturnedScore ==
    (AnalyzeReturned /\ Len(call.input.results) >= 30)
    => /\ ret.value.verdict = "fair" <=> AtLeast(ret.value.overallScore, 80)
       /\ ret.value.verdict = "suspicious"
          <=> (AtLeast(ret.value.overallScore, 60) /\ Below(ret.value.overallScore, 80))
       /\ ret.value.verdict = "concerning" <=> Below(ret.value.overallScore, 60)

\* The score the formula gives for the tests and anomalies of a result: the
\* pass rate (1 where no test was run) times 100, less 25 for each unit of
\* confidence, plus min(10, 5 log10 n), clamped to [0, 100] and rounded.
FormulaScore(result) ==
    LET tests == result.tests
        anomalies == result.anomalies
        passed == Cardinality({i \in 1..Len(tests) : tests[i].passed})
        passRate == IF Len(tests) = 0 THEN 100 * Q ELSE Ratio(passed * 100, Len(tests))
        penalty == SumRange([i \in 1..Len(anomalies) |-> 25 * anomalies[i].confidence],
                            1, Len(anomalies))
        bonus == Min(10 * Q, 5 * Log10OfCount(result.sampleSize))
    IN  (Max(0, Min(100 * Q, passRate - penalty + bonus)) + Q \div 2) \div Q

\* C9 (as claimed): overallScore of every result is an integer in [0, 100]
\* and, from 30 samples on, it is the rounded, clamped formula score of the
\* tests and anomalies returned.
C9_ScoreIsFormula ==
    AnalyzeReturned
    => /\ ret.value.overallScore \in 0..100
       /\ Len(call.input.results) >= 30
          => (/\ \A i \in 1..Len(ret.value.anomalies) :
                    ret.value.anomalies[i].confidence # NaN
              /\ ret.value.overallScore = FormulaScore(ret.value))

\* C10 (as claimed): a comprehensive or statistical analysis of at least 30
\* samples returns exactly one TestResult for each of the six tests.
C10_SixTests ==
    (AnalyzeReturned /\ Len(call.input.results) >= 30
        /\ ret.value.analysisType \in {"comprehensive", "statistical"})
    => OnceEach(ret.value.tests, SixTests)

\* C10 (amended): a comprehensive or statistical analysis returns exactly one
\* TestResult for each of chi-square, runs, serial correlation, frequency and
\* entropy from 30 samples on, and one for the gap test as well from 100
\* samples on; below 100 samples no gap test is run.
C10_GapTestFromHundred ==
    (AnalyzeReturned /\ Len(call.input.results) >= 30
        /\ ret.value.analysisType \in {"comprehensive", "statistical"})
    => IF Len(call.input.results) >= 100
       THEN OnceEach(ret.value.tests, SixTests)
       ELSE OnceEach(ret.value.tests, FiveTests)

\* C10 witness: a statistical analysis of 100 outcomes that ends with the gap
\* test.
C10_Witness ==
    /\ AnalyzeReturned
    /\ Len(call.input.results) = 100
    /\ call.input.options.type = "statistical"
    /\ Len(ret.value.tests) = 6
    /\ ret.value.tests[6].testName = "Gap Test"

(***************************************************************************)
(* Properties of the statistical tests                                     *)
(***************************************************************************)

TestReturned == pc = "returned" /\ call.op = "test"

\* The significance level an analysis passes to its tests.
LevelOf(options) ==
    IF options.significanceLevel = UndefinedNum THEN DefaultSignificance
    ELSE options.significanceLevel

\* The test results a finished call hands back, each with the batch and the
\* significance level it was computed for.
ReturnedTests ==
    IF TestReturned
    THEN {[result |-> ret.value, results |-> call.input.results,
           level |-> call.input.significanceLevel]}
    ELSE IF AnalyzeReturned
    THEN {[result |-> ret.value.tests[i], results |-> call.input.results,
           level |-> LevelOf(call.input.options)] : i \in 1..Len(ret.value.tests)}
    ELSE {}

\* The gaps the gap test records in a batch: a hit of [0, 0.5) that follows
\* an outcome outside it ends one.
RecordedGaps(results) ==
    Cardinality({i \in 2..Len(results) :
                    results[i] < Grid \div 2 /\ results[i - 1] >= Grid \div 2})

\* The test was given less than its minimum: 10 samples for the runs test,
\* lag + 10 for the serial correlation test (lag 1), 10 gaps for the gap test.
UnderPowered(testName, results) ==
    \/ testName = "Runs Test" /\ Len(results) < 10
    \/ testName = "Serial Correlation Test" /\ Len(results) < 11
    \/ testName = "Gap Test" /\ RecordedGaps(results) < 10

PassedIsAboveLevel(t) ==
    t.result.passed <=> (t.result.pValue # NaN /\ t.result.pValue > t.level)

\* C11 (as claimed): for every TestResult of the chi-square, runs, serial
\* correlation, frequency and gap tests, for every batch and significance
\* level, passed is true exactly when pValue > significanceLevel.
C11_PassedIffAboveLevel ==
    \A t \in ReturnedTests :
        t.result.testName \in FiveTestNames => PassedIsAboveLevel(t)

\* C11 (amended): passed is true exactly when pValue > significanceLevel for
\* every result of the five tests that had its minimum of data; a test given
\* less returns passed = false beside pValue = 1, whatever the level.
C11_PassedIffAboveLevelWhenPowered ==
    \A t \in ReturnedTests :
        t.result.testName \in FiveTestNames
        => IF UnderPowered(t.result.testName, t.results)
           THEN ~t.result.passed /\ t.result.pValue = Q
           ELSE PassedIsAboveLevel(t)

\* C11 witness: a runs test of 9 samples comes back failed with pValue 1, and
\* 1 is above the level.
C11_Witness ==
    /\ TestReturned
    /\ call.input.testName = "Runs Test"
    /\ Len(call.input.results) = 9
    /\ ~ret.value.passed
    /\ ret.value.pValue > call.input.significanceLevel

\* C12 (as claimed): every TestResult of the six tests, for every batch of
\* samples in [0, 1) of any length, has a pValue that is a number in [0, 1].
C12_PValueInUnitInterval ==
    \A t \in ReturnedTests :
        /\ t.result.pValue # NaN
        /\ t.result.pValue >= 0
        /\ t.result.pValue <= Q

\* The result a test gives when it has too little data.
IsInsufficientResult(result) ==
    /\ ~result.passed
    /\ result.pValue = Q
    /\ result.statistic = 0
    /\ "error" \in DOMAIN result

\* C13: no test and no analysis raises an error; a test given less than its
\* minimum returns passed = false, pValue = 1, statistic = 0 and an error
\* detail, and the analysis around it returns its result with the results of
\* the other tests, each test once.
C13_UnderPoweredTestIsAResult ==
    /\ (TestReturned \/ AnalyzeReturned) => ~ret.threw
    /\ \A t \in ReturnedTests :
          UnderPowered(t.result.testName, t.results) => IsInsufficientResult(t.result)
    /\ (AnalyzeReturned /\ Len(call.input.results) >= 30
           /\ ret.value.analysisType \in {"comprehensive", "statistical"})
       => /\ {"sampleSize", "analysisType", "tests", "anomalies", "overallScore",
              "verdict"} \subseteq DOMAIN ret.value
          /\ \A name \in FiveTests :
                \E i \in 1..Len(ret.value.tests) :
                   ret.value.tests[i] = RunTest(name, call.input.results,
                                                LevelOf(call.input.options))
          /\ \A i, j \in 1..Len(ret.value.tests) :
                ret.value.tests[i].testName = ret.value.tests[j].testName => i = j

\* C13 witness: a statistical analysis of 100 outcomes of the generator that
\* returns 0.5 forever: the gap test finds no gap and is the sixth result.
C13_Witness ==
    /\ AnalyzeReturned
    /\ call.input.results = SubSeq(ConstantSeries, 1, 100)
    /\ call.input.options.type = "statistical"
    /\ Len(ret.value.tests) = 6
    /\ IsInsufficientResult(ret.value.tests[6])
    /\ ret.value.tests[6].testName = "Gap Test"

(***************************************************************************)
(* Properties of the anomaly detectors                                     *)
(***************************************************************************)

DetectorReturned == pc = "returned" /\ call.op = "detector"

DetectAllReturned == pc = "returned" /\ call.op = "detectAllAnomalies"

\* The results of the heuristics that flag the batch, each heuristic run on
\* its own.
Flagged(results, timestamps) ==
    {a \in {RunDetector(h, results, timestamps) : h \in Heuristics} : a.detected}

\* The list holds the elements of the set, each once.
ListsExactly(list, set) ==
    /\ {list[i] : i \in 1..Len(list)} = set
    /\ Len(list) = Cardinality(set)

\* C14: the anomaly list of detectAllAnomalies, and the one carried in the
\* AnalysisResult of a comprehensive or anomaly analysis, contains exactly
\* the results of the heuristics that flagged the batch: no result of a
\* heuristic that did not flag, and none missing.
C14_AnomaliesAreTheFlaggedResults ==
    /\ DetectAllReturned
       => ListsExactly(ret.value, Flagged(call.input.results, call.input.timestamps))
    /\ (AnalyzeReturned /\ Len(call.input.results) >= 30
           /\ ret.value.analysisType \in {"comprehensive", "anomaly"})
       => ListsExactly(ret.value.anomalies,
                       Flagged(call.input.results, call.input.options.timestamps))

\* C14 witness: all heuristics run with timestamps on 100 outcomes; some flag
\* the batch and some do not.
C14_Witness ==
    /\ DetectAllReturned
    /\ Len(call.input.results) = 100
    /\ Len(call.input.timestamps) = 100
    /\ Len(ret.value) \in 1..4

\* The runs of wins (or of losses) in results[lo..hi]: the length of the run
\* at its start, of the run at its end, of its longest run, and its size.
RECURSIVE RunSummary(_, _, _, _)
RunSummary(results, wins, lo, hi) ==
    IF lo = hi
    THEN IF (results[lo] >= Grid \div 2) = wins THEN <<1, 1, 1, 1>> ELSE <<0, 0, 0, 1>>
    ELSE CHOOSE summary \in
            {<<IF l[1] = l[4] THEN l[4] + r[1] ELSE l[1],
               IF r[2] = r[4] THEN r[4] + l[2] ELSE r[2],
               Max(Max(l[3], r[3]), l[2] + r[1]),
               l[4] + r[4]>> :
                 l \in {RunSummary(results, wins, lo, (lo + hi) \div 2)},
                 r \in {RunSummary(results, wins, (lo + hi) \div 2 + 1, hi)}} : TRUE

LongestRun(results, wins) ==
    IF results = <<>> THEN 0 ELSE RunSummary(results, wins, 1, Len(results))[3]

\* (n - k + 1) * 0.5^k < 0.01; from 31 on the run is longer than any batch
\* here can make probable.
Improbable(n, k) == k >= 31 \/ 100 * (n - k + 1) < 2^k

StreakRule ==
    /\ ret.value.detected
       <=> \/ Improbable(Len(call.input.results), LongestRun(call.input.results, TRUE))
           \/ Improbable(Len(call.input.results), LongestRun(call.input.results, FALSE))
    /\ call.input.results = SubSeq(AlternatingSeries, 1, 100) => ~ret.value.detected

StreakCall == DetectorReturned /\ call.input.heuristic = "streak"

\* C15 (as claimed): streak detection flags a batch of n outcomes exactly
\* when (n - k + 1) * 0.5^k < 0.01, that is 100 (n - k + 1) < 2^k, for the
\* longest run k of wins or of losses; so an alternating sequence of length
\* 100 is never flagged, and a batch containing 20 consecutive values of at
\* least 0.5 is flagged with confidence above 0.
C15_StreakRuleAndTwentyWins ==
    StreakCall
    => /\ StreakRule
       /\ LongestRun(call.input.results, TRUE) >= 20
          => ret.value.detected /\ ret.value.confidence > 0

\* C15 (amended): the same rule; a batch of at most 10504 outcomes containing
\* 20 consecutive values of at least 0.5 is flagged with confidence above 0.
C15_StreakRuleAndTwentyWinsUpTo10504 ==
    StreakCall
    => /\ StreakRule
       /\ (LongestRun(call.input.results, TRUE) >= 20
             /\ Len(call.input.results) <= 10504)
          => ret.value.detected /\ ret.value.confidence > 0

\* C15 witness: 10504 outcomes that start with 20 wins and alternate from
\* there on are flagged.
C15_Witness ==
    /\ StreakCall
    /\ Len(call.input.results) = 10504
    /\ LongestRun(call.input.results, TRUE) = 20
    /\ ret.value.detected
    /\ ret.value.confidence > 0

\* The anomaly results a finished call hands back.
ReturnedAnomalies ==
    IF DetectorReturned THEN {ret.value}
    ELSE IF DetectAllReturned THEN {ret.value[i] : i \in 1..Len(ret.value)}
    ELSE IF AnalyzeReturned
    THEN {ret.value.anomalies[i] : i \in 1..Len(ret.value.anomalies)}
    ELSE {}

\* C16 (as claimed): every AnomalyResult of every heuristic, for every batch
\* (empty, constant and under-sized ones included), has a confidence in
\* [0, 1], and 0 whenever detected is false.
C16_ConfidenceInUnitInterval ==
    \A a \in ReturnedAnomalies :
        /\ a.confidence # NaN
        /\ a.confidence >= 0
        /\ a.confidence <= Q
        /\ ~a.detected => a.confidence = 0

(***************************************************************************)
(* Properties of the scheme registry and of the primitives                 *)
(***************************************************************************)

\* C17 (as claimed): for every scheme name that is not registered (the
\* registered ones are generic, stake and bc-game), verify behaves exactly as
\* the generic scheme does on the same input and raises no error.
C17_UnregisteredSchemeIsGeneric ==
    (VerifyReturned /\ call.input.scheme \notin RegisteredSchemes \cup {"undefined"})
    => /\ ~ret.threw
       /\ ret = verifyProvablyFair([call.input EXCEPT !.scheme = "generic"])

HashToFloatReturned == pc = "returned" /\ call.op = "hashToFloat"

\* The byte width a conversion uses: bytesToUse, 4 when it is left out.
WidthOf(bytesToUse) == IF bytesToUse = UndefinedNum THEN 4 ELSE bytesToUse

\* The first width bytes of a hex digest, in the order of the digest.
LeadingBytes(hash, width) ==
    [i \in 1..width |-> 16 * HexValue(hash[2 * i - 1]) + HexValue(hash[2 * i])]

\* a <= b for two tuples of the same length read as big-endian integers
TupleAtMost(a, b) ==
    \/ a = b
    \/ \E i \in 1..Len(a) : a[i] < b[i] /\ \A j \in 1..(i - 1) : a[j] = b[j]

\* C18 (as claimed): hashToFloat of a hex digest is the big-endian unsigned
\* integer of its first byteWidth bytes over 256^byteWidth, nothing rounded,
\* in the primitive and in the three schemes alike; it is in [0, 1), is
\* monotonic in that integer, is 0 for a digest starting 00000000 and is
\* 4294967295/4294967296 for one starting ffffffff.
C18_HashToFloatIsExactFraction ==
    HashToFloatReturned
    => LET width == WidthOf(call.input.bytesToUse)
           bytes == LeadingBytes(call.input.hash, width)
       IN  /\ ret.value = Float(0, bytes)
           /\ ret.value.whole = 0
           /\ \A other \in Digests :
                 TupleAtMost(bytes, LeadingBytes(other, width))
                 => TupleAtMost(<<ret.value.whole>> \o ret.value.fraction,
                                LET float == RunHashToFloat(call.input.implementation,
                                                            other, width)
                                IN  <<float.whole>> \o float.fraction)
           /\ (width = 4 /\ bytes = <<0, 0, 0, 0>>)
              => ret.value = Float(0, <<0, 0, 0, 0>>)
           /\ (width = 4 /\ bytes = <<255, 255, 255, 255>>)
              => ret.value = Float(0, <<255, 255, 255, 255>>)

TimingSafeEqualReturned == pc = "returned" /\ call.op = "timingSafeEqual"

\* C19: constantTimeEqual(a, b) returns false whenever the two strings differ
\* in length, and for strings of equal length (two empty strings included)
\* returns true exactly when every character position matches.
C19_EqualIffSameLengthAndCharacters ==
    TimingSafeEqualReturned
    => IF Len(call.input.a) # Len(call.input.b) THEN ret.value = FALSE
       ELSE ret.value <=> \A i \in 1..Len(call.input.a) : call.input.a[i] = call.input.b[i]

\* C19 witness: two empty strings compare equal.
C19_Witness ==
    /\ TimingSafeEqualReturned
    /\ call.input.a = <<>>
    /\ call.input.b = <<>>
    /\ ret.value = TRUE

FormatReturned == pc = "returned" /\ call.op = "formatGameOutcome"

\* C20: for every normalized float x in [0, 1), formatOutcome(x, dice).raw is
\* x * 100, and formatOutcome(x, crash).raw is max(1, 0.99 / (1 - x)), which
\* is at least 1.
C20_DiceAndCrashRaw ==
    (FormatReturned /\ call.input.normalizedFloat.num < call.input.normalizedFloat.den)
    => LET x == call.input.normalizedFloat
           raw == ret.value.raw
       IN  /\ call.input.gameType \in {"dice", "DICE"}
              => raw.num * x.den = 100 * x.num * raw.den
           /\ call.input.gameType \in {"crash", "Crash"}
              => /\ raw.den > 0
                 /\ raw.num >= raw.den
                 /\ IF 99 * x.den >= 100 * (x.den - x.num)
                    THEN Times(raw, Rational(x.den - x.num, x.den)) = Rational(99, 100)
                    ELSE raw = Number(1)

\* C20 witness: the crash outcome of x = 0 is the floor of 1, where the
\* quotient is 0.99.
C20_Witness ==
    /\ FormatReturned
    /\ call.input.gameType = "crash"
    /\ call.input.normalizedFloat = Number(0)
    /\ ret.value.raw = Number(1)

\* C21 (as claimed): for every normalized float in [0, 1), 0 included, the
\* crash and the limbo outcome are computed without a division by zero and
\* are finite multipliers.
C21_CrashAndLimboAreFinite ==
    (/\ FormatReturned
     /\ call.input.normalizedFloat.num < call.input.normalizedFloat.den
     /\ call.input.gameType \in {"crash", "Crash", "limbo"})
    => /\ ret.value.raw.den # 0
       /\ call.input.gameType = "limbo" => call.input.normalizedFloat.num # 0

\* The outcome is a whole number between two bounds.
WholeBetween(raw, low, high) == raw.den = 1 /\ raw.num >= low /\ raw.num <= high

\* floor(k x) for the fraction x = num / den: the whole number n with
\* n <= k x < n + 1.
IsFloorOfMultiple(n, k, x) == n * x.den <= k * x.num /\ k * x.num < (n + 1) * x.den

\* C22: for every normalized float x in [0, 1) the integer games stay in
\* range: mines is floor(25 x) in 0..24, keno is floor(40 x) + 1 in 1..40,
\* roulette is floor(37 x) in 0..36 and the card games are floor(52 x) in
\* 0..51, rendered as the rank (index mod 13 of A, 2..10, J, Q, K) of the suit
\* (index div 13 of Hearts, Diamonds, Clubs, Spades), which both exist.
C22_IntegerGamesInRange ==
    (FormatReturned /\ call.input.normalizedFloat.num < call.input.normalizedFloat.den)
    => LET x == call.input.normalizedFloat
           raw == ret.value.raw
           game == call.input.gameType
       IN  /\ game = "mines"
              => WholeBetween(raw, 0, 24) /\ IsFloorOfMultiple(raw.num, 25, x)
           /\ game = "keno"
              => WholeBetween(raw, 1, 40) /\ IsFloorOfMultiple(raw.num - 1, 40, x)
           /\ game \in {"roulette", "Roulette"}
              => WholeBetween(raw, 0, 36) /\ IsFloorOfMultiple(raw.num, 37, x)
           /\ game \in {"blackjack", "poker", "baccarat"}
              => /\ WholeBetween(raw, 0, 51)
                 /\ IsFloorOfMultiple(raw.num, 52, x)
                 /\ ret.value.formatted
                       = <<<<"A", "2", "3", "4", "5", "6", "7", "8", "9", "10", "J",
                             "Q", "K">>[(raw.num % 13) + 1],
                           " of ",
                           <<"Hearts", "Diamonds", "Clubs", "Spades">>[(raw.num \div 13) + 1]>>

\* C22 witness: the largest float below 1 gives the last card, the King of
\* Spades.
C22_Witness ==
    /\ FormatReturned
    /\ call.input.gameType = "poker"
    /\ call.input.normalizedFloat = Rational(Grid - 1, Grid)
    /\ ret.value.raw = Number(51)
    /\ ret.value.formatted = <<"K", " of ", "Spades">>

(***************************************************************************)
(* Properties of the gap test and of the verdict                           *)
(***************************************************************************)

GapTestCall == TestReturned /\ call.input.testName = "Gap Test"

\* The gaps the test collects from the batch of the call.
CollectedGaps ==
    GapScan(call.input.results, 0, Grid \div 2, <<<<>>, 0>>, 1,
            Len(call.input.results))[1]

\* C25: the gap test skips the gaps of length zero: every gap it records has
\* a length of at least 1, so the k = 0 bin observes 0 while its expected
\* count, p times the number of recorded gaps, is above 0; the test returns
\* its degenerate failed result exactly when fewer than 10 gaps of length at
\* least 1 were recorded.
C25_GapTestSkipsZeroGaps ==
    GapTestCall
    => /\ \A i \in 1..Len(CollectedGaps) : CollectedGaps[i] >= 1
       /\ Len(CollectedGaps) = RecordedGaps(call.input.results)
       /\ Len(CollectedGaps) >= 10
          => /\ GapObserved(CollectedGaps)[1] = 0
             /\ GapExpected(CollectedGaps)[1] > 0
             /\ 2 * GapExpected(CollectedGaps)[1] = Len(CollectedGaps) * Q
       /\ IsInsufficientResult(ret.value) <=> RecordedGaps(call.input.results) < 10

\* C25 witness: a batch with two hits in a row, which leave a gap of length
\* zero between them, and 10 gaps or more; the test returns a statistic.
C25_Witness ==
    /\ GapTestCall
    /\ \E i \in 2..Len(call.input.results) :
          call.input.results[i] < Grid \div 2 /\ call.input.results[i - 1] < Grid \div 2
    /\ Len(CollectedGaps) >= 10
    /\ ~IsInsufficientResult(ret.value)

\* C26: analyze returns the verdict insufficient_data, with overallScore 0,
\* exactly when the batch has fewer than 30 samples or when no test was run
\* and no anomaly was detected (an anomaly analysis of a batch that no
\* heuristic flags); in every other case the verdict is fair, suspicious or
\* concerning.
C26_InsufficientDataExactly ==
    AnalyzeReturned
    => /\ ret.value.verdict = "insufficient_data"
          <=> \/ Len(call.input.results) < 30
              \/ /\ call.input.options.type = "anomaly"
                 /\ Flagged(call.input.results, call.input.options.timestamps) = {}
       /\ ret.value.verdict = "insufficient_data" => ret.value.overallScore = 0
       /\ ret.value.verdict \in {"insufficient_data", "fair", "suspicious", "concerning"}

\* C26 witness: an anomaly analysis of 100 outcomes that no heuristic flags.
C26_Witness ==
    /\ AnalyzeReturned
    /\ Len(call.input.results) = 100
    /\ call.input.options.type = "anomaly"
    /\ ret.value.anomalies = <<>>
    /\ ret.value.verdict = "insufficient_data"
    /\ ret.value.overallScore = 0

\* C27 (as claimed): in every AnalysisResult that holds an anomaly, for every
\* analysis type, the anomalies handed back are ordered by non-increasing
\* confidence.
C27_AnomaliesByDescendingConfidence ==
    AnalyzeReturned
    => \A i \in 1..(Len(ret.value.anomalies) - 1) :
          /\ ret.value.anomalies[i].confidence # NaN
          /\ ret.value.anomalies[i + 1].confidence # NaN
          /\ ret.value.anomalies[i].confidence >= ret.value.anomalies[i + 1].confidence

(***************************************************************************)
(* Session tracker (lib/gambling/session-tracker.ts)                       *)
(*                                                                         *)
(* The map of sessions is a function from user ids to session records;     *)
(* dates are milliseconds of the wall clock.  Each method is an operator   *)
(* from the map and the clock to the map it leaves and the value it        *)
(* returns.                                                                *)
(***************************************************************************)

SESSION_TIMEOUT_MS == 30 * 60 * 1000

\* sessions.get(userId) is undefined.
Null == [userId |-> "null"]

MapHas(map, key) == key \in DOMAIN map

MapSet(map, key, value) ==
    [k \in DOMAIN map \cup {key} |-> IF k = key THEN value ELSE map[k]]

MapDelete(map, key) == [k \in DOMAIN map \ {key} |-> map[k]]

\* The session startSession creates.
NewSession(userId, time) ==
    [userId |-> userId, startTime |-> time, lastActivityTime |-> time,
     totalWagered |-> 0, netProfitLoss |-> 0, betCount |-> 0, wins |-> 0,
     losses |-> 0, currentStreak |-> 0, maxWinStreak |-> 0, maxLossStreak |-> 0]

startSession(map, userId, time) ==
    IF MapHas(map, userId)
       /\ time - map[userId].lastActivityTime < SESSION_TIMEOUT_MS
    THEN LET existing == [map[userId] EXCEPT !.lastActivityTime = time]
         IN  [sessions |-> MapSet(map, userId, existing), value |-> existing]
    ELSE [sessions |-> MapSet(map, userId, NewSession(userId, time)),
          value |-> NewSession(userId, time)]

\* Variant of the streak arithmetic that extends a streak across a change of
\* outcome.
StreakAfterWithoutReset(currentStreak, won) ==
    IF won THEN currentStreak + 1 ELSE currentStreak - 1

\* The streak after one more bet: extended when the outcome repeats, restarted
\* at 1 or -1 when it changes.
StreakAfter(currentStreak, won) ==
    IF won
    THEN IF currentStreak >= 0 THEN currentStreak + 1 ELSE 1
    ELSE IF currentStreak <= 0 THEN currentStreak - 1 ELSE -1

\* The body of recordBet on the session it has taken from the map or started.
WithBet(session, bet, time) ==
    LET won == bet.profitLoss >= 0
        streak == StreakAfter(session.currentStreak, won)
    IN  [session EXCEPT
            !.lastActivityTime = time,
            !.totalWagered = @ + bet.amount,
            !.netProfitLoss = @ + bet.profitLoss,
            !.betCount = @ + 1,
            !.wins = IF won THEN @ + 1 ELSE @,
            !.losses = IF won THEN @ ELSE @ + 1,
            !.currentStreak = streak,
            !.maxWinStreak = IF won THEN Max(@, streak) ELSE @,
            !.maxLossStreak = IF won THEN @ ELSE Max(@, Abs(streak))]

recordBet(map, userId, bet, time) ==
    LET started == IF MapHas(map, userId) THEN map
                   ELSE startSession(map, userId, time).sessions
        session == WithBet(started[userId], bet, time)
    IN  [sessions |-> MapSet(started, userId, session), value |-> session]

endSession(map, userId) ==
    [sessions |-> MapDelete(map, userId),
     value |-> IF MapHas(map, userId) THEN map[userId] ELSE Null]

getSession(map, userId, time) ==
    IF ~MapHas(map, userId) THEN [sessions |-> map, value |-> Null]
    ELSE IF time - map[userId].lastActivityTime >= SESSION_TIMEOUT_MS
    THEN [sessions |-> endSession(map, userId).sessions, value |-> Null]
    ELSE [sessions |-> map, value |-> map[userId]]

cleanupExpiredSessions(map, time) ==
    LET expired == {userId \in DOMAIN map :
                       time - map[userId].lastActivityTime >= SESSION_TIMEOUT_MS}
    IN  [sessions |-> [userId \in DOMAIN map \ expired |-> map[userId]],
         value |-> Cardinality(expired)]

(***************************************************************************)
(* Callers of the session tracker                                          *)
(***************************************************************************)

\* The clock is read every ten minutes, up to MaxTicks times.
TickMs == 10 * 60 * 1000

MaxTicks == 3

\* No session is given more than MaxBets bets.
MaxBets == 2

Users == {"u1", "u2"}

\* A bet that wins, one that breaks even and one that loses.
Bets == [amount : {10}, profitLoss : {10, 0, -10}, timestamp : {0}]

TrackerReturns(op, input, result) ==
    /\ call' = [op |-> op, input |-> input]
    /\ ret' = Return(result.value)
    /\ sessions' = result.sessions
    /\ pc' = "returned"
    /\ UNCHANGED <<arrays, runtimeVars, now, anchorVars>>

StartSessionCall ==
    /\ pc = "idle"
    /\ \E userId \in Users :
          TrackerReturns("startSession", [userId |-> userId],
                         startSession(sessions, userId, now))

RecordBetCall ==
    /\ pc = "idle"
    /\ \E userId \in Users, bet \in Bets :
          /\ MapHas(sessions, userId) => sessions[userId].betCount < MaxBets
          /\ TrackerReturns("recordBet",
                            [userId |-> userId, bet |-> [bet EXCEPT !.timestamp = now]],
                            recordBet(sessions, userId, bet, now))

GetSessionCall ==
    /\ pc = "idle"
    /\ \E userId \in Users :
          TrackerReturns("getSession", [userId |-> userId],
                         getSession(sessions, userId, now))

EndSessionCall ==
    /\ pc = "idle"
    /\ \E userId \in Users :
          TrackerReturns("endSession", [userId |-> userId],
                         endSession(sessions, userId))

CleanupExpiredSessionsCall ==
    /\ pc = "idle"
    /\ TrackerReturns("cleanupExpiredSessions", <<>>,
                      cleanupExpiredSessions(sessions, now))

\* Time passes between two calls.
Tick ==
    /\ pc = "idle"
    /\ now < MaxTicks * TickMs
    /\ now' = now + TickMs
    /\ UNCHANGED <<pc, call, ret, arrays, runtimeVars, sessions, anchorVars>>

NextTracker ==
    \/ StartSessionCall \/ RecordBetCall \/ GetSessionCall \/ EndSessionCall
    \/ CleanupExpiredSessionsCall \/ Tick \/ Finish

SpecTracker == InitVerify /\ [][NextTracker]_vars

(***************************************************************************)
(* Properties of the session tracker                                       *)
(***************************************************************************)

\* The stored session of the user has been inactive for the timeout or longer.
Expired(userId) ==
    /\ MapHas(sessions, userId)
    /\ now - sessions[userId].lastActivityTime >= SESSION_TIMEOUT_MS

\* This step is the call of the method on the user.
TrackerStep(op, userId) ==
    /\ pc = "idle"
    /\ pc' = "returned"
    /\ call'.op = op
    /\ call'.input.userId = userId

\* C28: a session whose last activity is 30 minutes old or older is never
\* continued: startSession and recordBet, coming next, work on a fresh zeroed
\* session (recordBet on one holding just its bet), and getSession returns null.
C28_ExpiredSessionNeverContinued ==
    [][\A userId \in Users :
          Expired(userId) =>
             /\ TrackerStep("startSession", userId) =>
                   /\ ret'.value = NewSession(userId, now)
                   /\ sessions'[userId] = NewSession(userId, now)
             /\ TrackerStep("recordBet", userId) =>
                   /\ ret'.value = WithBet(NewSession(userId, now), call'.input.bet, now)
                   /\ sessions'[userId] = ret'.value
             /\ TrackerStep("getSession", userId) =>
                   /\ ret'.value = Null
                   /\ ~MapHas(sessions', userId)]_vars

\* The counters of a session agree with one another.
Consistent(session) ==
    /\ session.wins + session.losses = session.betCount
    /\ session.maxWinStreak >= session.currentStreak
    /\ session.maxLossStreak >= -session.currentStreak
    /\ session.currentStreak = 0 => session.betCount = 0
    /\ session.maxWinStreak + session.maxLossStreak <= session.betCount

\* C29: after any sequence of startSession, recordBet, getSession, endSession
\* and cleanupExpiredSessions for any users, the map holds at most one session
\* per user, stored under its own user id, and every stored session has
\* wins + losses = betCount, maxWinStreak >= currentStreak,
\* maxLossStreak >= -currentStreak, currentStreak = 0 only if betCount = 0, and
\* maxWinStreak + maxLossStreak <= betCount.
C29_StoredSessionsAreConsistent ==
    /\ DOMAIN sessions \subseteq Users
    /\ \A userId \in DOMAIN sessions :
          /\ sessions[userId].userId = userId
          /\ Consistent(sessions[userId])

\* recordBet has returned a session that holds a win and a loss while the
\* other user has a session too.
C29_Witness ==
    /\ pc = "returned"
    /\ call.op = "recordBet"
    /\ DOMAIN sessions = Users
    /\ ret.value.wins = 1
    /\ ret.value.losses = 1
    /\ sessions[call.input.userId] = ret.value

(***************************************************************************)
(* Evidence anchoring (POST /api/v1/evidence/[id]/anchor)                  *)
(*                                                                         *)
(* One row of the evidence table and the requests of its owner to anchor   *)
(* it.  A handler runs up to its next await of the database or of the      *)
(* chain in one step; handlers of different requests interleave at these   *)
(* awaits.  A transaction hash is the position of the transaction among    *)
(* those submitted.                                                        *)
(***************************************************************************)

Chains == {"algorand", "polygon", "base"}

\* The chains isChainAvailable accepts: those the deployment has keys for.
ConfiguredChains == {"algorand", "polygon"}

isChainAvailable(chain) == chain \in ConfiguredChains

\* The row POST /api/v1/evidence inserts.
DraftEvidence ==
    [status |-> "draft", contentHash |-> "content", chainType |-> "null",
     txHash |-> 0]

\* No more than MaxRequests requests are made.
MaxRequests == 2

NoResponse == [code |-> "pending", txHash |-> 0]

errorResponse(code) == [code |-> code, txHash |-> 0]

successResponse(updated) == [code |-> "OK", txHash |-> updated.txHash]

\* The owner creates the evidence record.
CreateEvidence ==
    /\ evidence = NoEvidence
    /\ evidence' = DraftEvidence
    /\ UNCHANGED <<pc, call, ret, arrays, runtimeVars, trackerVars, transactions,
                   requests>>

\* The handler of request r goes on to a next step, or answers.
Advance(r, step, anchor, response) ==
    requests' = [requests EXCEPT ![r] = [@ EXCEPT !.step = step, !.anchor = anchor,
                                                   !.response = response]]

\* A request arrives: the owner is authenticated and found, the body is valid,
\* and the chain is looked up.
AnchorPost ==
    /\ Len(requests) < MaxRequests
    /\ \E chain \in Chains :
          requests' = Append(requests,
                             IF isChainAvailable(chain)
                             THEN [chain |-> chain, step |-> "find", anchor |-> 0,
                                   response |-> NoResponse]
                             ELSE [chain |-> chain, step |-> "done", anchor |-> 0,
                                   response |-> errorResponse("CHAIN_UNAVAILABLE")])
    /\ UNCHANGED <<pc, call, ret, arrays, runtimeVars, trackerVars, evidence,
                   transactions>>

\* The handler reads the record and checks what it has read.
FindEvidence ==
    /\ \E r \in DOMAIN requests :
          /\ requests[r].step = "find"
          /\ IF evidence = NoEvidence
             THEN Advance(r, "done", 0, errorResponse("NOT_FOUND"))
             ELSE IF evidence.status # "draft"
             THEN Advance(r, "done", 0, errorResponse("ALREADY_ANCHORED"))
             ELSE IF evidence.contentHash = "null"
             THEN Advance(r, "done", 0, errorResponse("NO_CONTENT_HASH"))
             ELSE Advance(r, "anchor", 0, NoResponse)
    /\ UNCHANGED <<pc, call, ret, arrays, runtimeVars, trackerVars, evidence,
                   transactions>>

\* anchorToBlockchain submits a transaction and returns its hash, or throws
\* before it has sent anything.
AnchorToBlockchain ==
    /\ \E r \in DOMAIN requests :
          /\ requests[r].step = "anchor"
          /\ \/ /\ transactions' = Append(transactions, [chain |-> requests[r].chain,
                                                         request |-> r])
                /\ Advance(r, "update", Len(transactions) + 1, NoResponse)
             \/ /\ Advance(r, "done", 0, errorResponse("INTERNAL_ERROR"))
                /\ UNCHANGED transactions
    /\ UNCHANGED <<pc, call, ret, arrays, runtimeVars, trackerVars, evidence>>

\* The handler writes the anchor into the row with the record's id and answers
\* with the row.
UpdateEvidence ==
    /\ \E r \in DOMAIN requests :
          /\ requests[r].step = "update"
          /\ evidence' = [evidence EXCEPT !.status = "anchored",
                                          !.chainType = requests[r].chain,
                                          !.txHash = requests[r].anchor]
          /\ Advance(r, "done", requests[r].anchor, successResponse(evidence'))
    /\ UNCHANGED <<pc, call, ret, arrays, runtimeVars, trackerVars, transactions>>

NextAnchor ==
    CreateEvidence \/ AnchorPost \/ FindEvidence \/ AnchorToBlockchain \/ UpdateEvidence

SpecAnchor == InitVerify /\ [][NextAnchor]_vars

(***************************************************************************)
(* Properties of evidence anchoring                                        *)
(***************************************************************************)

Answered(code) == {r \in DOMAIN requests : requests[r].response.code = code}

\* C30: an evidence record is anchored at most once: of any anchor requests of
\* its owner on the record, concurrent or not, at most one submits a
\* transaction and moves the record from draft to anchored, no other request
\* is answered with the anchored record, and the chainType and txHash stored
\* are those of the single transaction.
C30_AnchoredAtMostOnce ==
    /\ Len(transactions) <= 1
    /\ Cardinality(Answered("OK")) <= 1
    /\ evidence # NoEvidence /\ evidence.status = "anchored"
          => /\ Len(transactions) = 1
             /\ evidence.txHash = 1
             /\ evidence.chainType = transactions[1].chain

(***************************************************************************)
(* Properties of the arrays handed to the analyser                         *)
(***************************************************************************)

\* The timestamps handed over with the call that has returned.
TimestampsOf(input) ==
    CASE call.op = "analyzeRNG" -> input.options.timestamps
      [] call.op = "test" -> NoTimestamps
      [] OTHER -> input.timestamps

\* C24: analyzeRNG, every statistical test and every anomaly heuristic leave the
\* caller's sample array and timestamp array as they were handed over, for
\* every analysis type: the sort of the runs test works on a copy.
C24_CallerArraysUnchanged ==
    pc = "returned"
    /\ call.op \in {"analyzeRNG", "test", "detector", "detectAllAnomalies"}
    => /\ arrays.results = call.input.results
       /\ arrays.timestamps = TimestampsOf(call.input)

\* The runs test has returned, and so has a comprehensive analysis with
\* timestamps, on 30 samples or more that were not in ascending order.
C24_Witness ==
    /\ pc = "returned"
    /\ \/ call.op = "test" /\ call.input.testName = "Runs Test"
       \/ /\ call.op = "analyzeRNG"
          /\ call.input.options.type = "comprehensive"
          /\ call.input.options.timestamps # NoTimestamps
    /\ Len(call.input.results) >= 30
    /\ \E i \in 2..Len(call.input.results) :
          call.input.results[i] < call.input.results[i - 1]
    /\ arrays.results = call.input.results

(***************************************************************************)
(* Properties of repeated calls                                            *)
(***************************************************************************)

====
